---------------------------- MODULE Spec2Model ----------------------------
(***************************************************************************)
(* Model of the LinkedIn job harvester (playwright-linkedin-login):        *)
(* the hardened fetchLinkedInJobsAiHr of src/jobs-ai-hr.ts (second         *)
(* revision in the file, lines 296-725) with its helpers, and the pure     *)
(* canonicalisation normalizeJobUrl.                                       *)
(*                                                                         *)
(* Strings are sequences of tokens.  A token is an indivisible piece of    *)
(* text; the tokens are chosen so that the substring tests of the code     *)
(* ("/jobs/view/" is contained, the text starts with "/", the text is      *)
(* split at "?") are decided by the tokens alone: no concatenation of the  *)
(* other tokens contains "/jobs/view/".                                    *)
(***************************************************************************)
EXTENDS Naturals, Integers, Sequences, FiniteSets, TLC

VARIABLES
    pc,           \* position of the governor loop (the async body, line 608)
    round,        \* loop variable of line 626
    seen,         \* Set<string> of line 620
    jobs,         \* ApiJob[] of line 621
    stagnant,     \* line 623
    prevSeen,     \* line 689
    hrefs,        \* the for-of loop of line 648: the hrefs not yet iterated,
                  \* the first being the jobUrl in work (line 640)
    polls,        \* polls done by the running waitForJobsOrDetectBlock
    pageUrl,      \* the document the page shows
    blockVisible, \* the shown document carries a block marker
    details,      \* what readJobPageDetails returned for the candidate in work
    reason,       \* why the governor loop ended
    outcome,      \* settlement of the promise returned by withHardTimeout
    visits,       \* history: detail navigations issued, per key
    okSinceNav,   \* history: the detector returned OK since the last navigation
    grew,         \* history: a key was added to seen in the round in progress
    nav,          \* the navigation issued last (list root or detail), whether
                  \* it is unresolved for sure (it lost the race to its timer
                  \* and no wait has followed), and whether the list region
                  \* was located since it was issued
    catalog,      \* static-list scenario: the hrefs the list region holds
    surface,      \* request: the entry point that serves it
    rPc,          \* request: position in the entry point and the session provider
    artifact,     \* request: the session file exists
    landing,      \* request: the page shown after the navigation to the feed
    browserOpen,  \* request: the launched browser is not closed
    contextOpen,  \* request: the created browser context is not closed
    workCalled,   \* request, history: work(page) was invoked
    err,          \* request: the error in flight (thrown, not yet answered)
    response,     \* request: the answer of the entry point
    sink,         \* request: the output files written (jobs-search.ts)
    nIn,          \* normalizeJobUrl harness: the argument
    nOut,         \* normalizeJobUrl harness: the value returned
    nStage,       \* normalizeJobUrl harness: number of applications done
    dScript,      \* detector harness: what each poll of the window sees
    dResult,      \* detector harness: the value returned, "none" before
    lPage,        \* locator harness: the elements of the document
    lOut,         \* locator harness: the element returned and the hrefs read
    lStage,       \* locator harness: number of applications done
    xIn,          \* extractor harness: what each read of the page gives
    xOut,         \* extractor harness: the record returned, or the rejection
    xStage,       \* extractor harness: number of applications done
    capture       \* diagnostic-capture variant: the state of the hard timer

vars == <<pc, round, seen, jobs, stagnant, prevSeen, hrefs, polls,
          pageUrl, blockVisible, details, reason, outcome, visits,
          okSinceNav, grew, nav, nIn, nOut, nStage, catalog, surface, rPc,
          artifact, landing, browserOpen, contextOpen, workCalled, err,
          response, sink, dScript, dResult, lPage, lOut, lStage,
          xIn, xOut, xStage, capture>>

govVars == <<pc, round, seen, jobs, stagnant, prevSeen, hrefs, polls,
             pageUrl, blockVisible, details, reason, outcome, visits,
             okSinceNav, grew, nav>>

\* the governor's variables that the end of a harvest does not set
govRest == <<round, seen, jobs, stagnant, prevSeen, hrefs, polls, pageUrl,
             blockVisible, details, visits, okSinceNav, grew, nav>>

normVars == <<nIn, nOut, nStage>>

reqVars == <<surface, rPc, artifact, landing, browserOpen, contextOpen,
             workCalled, err, response, sink>>

detVars == <<dScript, dResult>>

locVars == <<lPage, lOut, lStage>>

extVars == <<xIn, xOut, xStage>>

toolVars == <<detVars, locVars, extVars, capture>>

\* all that a harvest run on its own leaves alone
besideGov == <<normVars, reqVars, catalog, toolVars>>

\* the governor's variables beside the poll counter of the detector
govBesidePolls == <<pc, round, seen, jobs, stagnant, prevSeen, hrefs,
                    pageUrl, blockVisible, details, reason, outcome, visits,
                    okSinceNav, grew, nav>>

(***************************************************************************)
(* Bounds of the model.                                                    *)
(***************************************************************************)
MaxLen == 4          \* longest href, in tokens, given to normalizeJobUrl
MaxList == 2         \* most links one read of the list region returns
MaxPolls == 2        \* polls that fit in the 30 s window of the detector
MaxCount == 3        \* most candidate links one poll of the detector counts
MaxEls == 2          \* most elements of a document given to the locator
MaxLinks == 1        \* most candidate links inside one element
MIN_DESCRIPTION == 3 \* 50 characters in the source (line 560), scaled: words
MAX_RESULTS_TO_PROCESS == 2   \* 40 in the source (line 317), scaled

(***************************************************************************)
(* Constants of the program.                                               *)
(***************************************************************************)
MAX_SCROLL_ROUNDS == 10       \* line 318
STAGNANT_LIMIT == 5           \* line 713

(***************************************************************************)
(* Text.                                                                   *)
(***************************************************************************)
Origin == "https://www.linkedin.com"
Marker == "/jobs/view/"
Alphabet == {Origin, Marker, "/", "?", "#", "1", " "}

\* the tokens whose first character is "/"
SlashLed == {"/", Marker}

\* JavaScript null; no token sequence over Alphabet equals it
Null == <<"null">>

StrIncludes(s, t) == \E i \in 1..Len(s) : s[i] = t

StrStartsWithSlash(s) == Len(s) > 0 /\ s[1] \in SlashLed

\* s.split(sep)[0]: the text before the first sep, all of s when there is none
RECURSIVE SplitHead(_, _)
SplitHead(s, sep) ==
    IF s = <<>> THEN <<>>
    ELSE IF Head(s) = sep THEN <<>>
    ELSE <<Head(s)>> \o SplitHead(Tail(s), sep)

\* String.prototype.trim
RECURSIVE TrimLeft(_)
TrimLeft(s) ==
    IF s # <<>> /\ Head(s) = " " THEN TrimLeft(Tail(s)) ELSE s

RECURSIVE TrimRight(_)
TrimRight(s) ==
    IF s # <<>> /\ s[Len(s)] = " " THEN TrimRight(SubSeq(s, 1, Len(s) - 1)) ELSE s

Trim(s) == TrimRight(TrimLeft(s))

\* Boolean(x) of a string or null, as used by .filter(Boolean)
Truthy(s) == s # Null /\ s # <<>>

normalizeJobUrl(href) ==
    IF href = <<>> THEN Null
    ELSE LET abs == IF StrStartsWithSlash(href) THEN <<Origin>> \o href ELSE href
         IN  IF ~StrIncludes(abs, Marker) THEN Null ELSE SplitHead(abs, "?")

\* the path of a URL: what precedes its query and its fragment
PathOf(s) == SplitHead(SplitHead(s, "?"), "#")

\* the detail path shape: the path itself holds "/jobs/view/"
HasPathShape(s) == StrIncludes(PathOf(s), Marker)

\* all token strings of length at most n
StringsUpTo(n) == UNION {[1..k -> Alphabet] : k \in 0..n}

(***************************************************************************)
(* normalizeJobUrl on its own: an href is drawn, the function is applied   *)
(* to it, and then applied again to the key it returned.                   *)
(***************************************************************************)
\* the harness at rest
NormIdle ==
    /\ nIn = <<>>
    /\ nOut = Null
    /\ nStage = 0

NormInit ==
    /\ nIn \in StringsUpTo(MaxLen)
    /\ nOut = Null
    /\ nStage = 0

\* key = normalizeJobUrl(href)
NormCall ==
    /\ nStage = 0
    /\ nOut' = normalizeJobUrl(nIn)
    /\ nStage' = 1
    /\ UNCHANGED nIn

\* normalizeJobUrl(key), for a key the first call returned
NormRecall ==
    /\ nStage = 1
    /\ nOut # Null
    /\ nIn' = nOut
    /\ nOut' = normalizeJobUrl(nOut)
    /\ nStage' = 2

(***************************************************************************)
(* The catalog the list region can show.  The selector of collectLeftHrefs *)
(* (a[href*="/jobs/view/"]) returns only hrefs that contain the marker.    *)
(***************************************************************************)
SEARCH_URL == <<Origin, "/", "?">>
Blank == <<>>

RawHrefs ==
    { <<Marker, "1">>,                      \* /jobs/view/1
      <<Origin, Marker, "1", "?", "1">>,    \* the same page, absolute, with a query
      <<Marker, "1", "#", "1">>,            \* the same page with a fragment
      <<" ", Marker, "1", "1">>,            \* another page, with white space
      <<Origin, "/", "?", Marker, "1">> }   \* the marker in the query only

Listings == UNION {[1..k -> RawHrefs] : k \in 0..MaxList}

RECURSIVE MapTrim(_)
MapTrim(s) == IF s = <<>> THEN <<>> ELSE <<Trim(Head(s))>> \o MapTrim(Tail(s))

RECURSIVE MapNormalize(_)
MapNormalize(s) ==
    IF s = <<>> THEN <<>> ELSE <<normalizeJobUrl(Head(s))>> \o MapNormalize(Tail(s))

\* lines 640-644: .map(trim).filter(Boolean).map(normalizeJobUrl).filter(Boolean)
NormalizeHrefs(raw) ==
    SelectSeq(MapNormalize(SelectSeq(MapTrim(raw), Truthy)), Truthy)

\* every key a harvest can meet
Keys == UNION { {NormalizeHrefs(l)[i] : i \in 1..Len(NormalizeHrefs(l))} : l \in Listings }

(***************************************************************************)
(* Detail pages and the content filter.  A text is a sequence of words.    *)
(***************************************************************************)
AI_REGEX(text) == \E i \in 1..Len(text) : text[i] \in {"ai", "ki", "ml", "llm", "genai"}

HR_REGEX(text) == \E i \in 1..Len(text) : text[i] \in {"hr", "people", "talent"}

\* variant: one topic is enough
matchesAIandHR_either(text) ==
    LET ai == AI_REGEX(text)
        hr == HR_REGEX(text)
    IN  [ai |-> ai, hr |-> hr, ok |-> ai \/ hr]

matchesAIandHR(text) ==
    LET ai == AI_REGEX(text)
        hr == HR_REGEX(text)
    IN  [ai |-> ai, hr |-> hr, ok |-> ai /\ hr]

NoDetails ==
    [read |-> FALSE, jobTitle |-> <<>>, company |-> <<>>, description |-> <<>>,
     postingDate |-> ""]

\* what readJobPageDetails can return: each field best effort
DetailPages ==
    { [read |-> TRUE, jobTitle |-> <<"ai", "lead">>, company |-> <<"(unknown company)">>,
       description |-> <<>>, postingDate |-> ""],                                   \* topic A only
      [read |-> TRUE, jobTitle |-> <<"ai", "lead">>, company |-> <<"acme">>,
       description |-> <<"for", "hr">>, postingDate |-> "2024-01-01"],                        \* both topics
      [read |-> TRUE, jobTitle |-> <<"(unknown title)">>, company |-> <<"talent">>,
       description |-> <<>>, postingDate |-> ""],                                   \* topic B only
      [read |-> TRUE, jobTitle |-> <<"(unknown title)">>, company |-> <<"(unknown company)">>,
       description |-> <<>>, postingDate |-> ""] }                                  \* neither

\* line 660
Haystack(d) == d.jobTitle \o <<"\n">> \o d.company \o <<"\n">> \o d.description

\* lines 664-671
ApiJob(d, jobUrl) ==
    [jobTitle |-> d.jobTitle, description |-> d.description, link |-> jobUrl,
     contact |-> "", company |-> d.company, postingDate |-> d.postingDate]

(***************************************************************************)
(* The governor: the async body of fetchLinkedInJobsAiHr (lines 608-722),  *)
(* one action per await.  What a page operation observes of the remote     *)
(* site (whether a navigation succeeds, the links a read of the list       *)
(* region returns, the detail page's text) is an input chosen at the step. *)
(***************************************************************************)
NavResults == {"ok", "timeout"}

\* lines 604-624; keys is the set of keys the site can show
GovInitOver(keys) ==
    /\ pc = "open"
    /\ round = 0
    /\ seen = {}
    /\ jobs = <<>>
    /\ stagnant = 0
    /\ prevSeen = 0
    /\ hrefs = <<>>
    /\ polls = 0
    /\ pageUrl = Blank
    /\ blockVisible = FALSE
    /\ details = NoDetails
    /\ reason = "none"
    /\ outcome = "pending"
    /\ visits = [k \in keys |-> 0]
    /\ okSinceNav = FALSE
    /\ grew = FALSE
    /\ nav = [last |-> "none", pending |-> FALSE, located |-> FALSE]

GovInit == GovInitOver(Keys)

\* variant: the settlement of the loop replaces the one of the timer
Settle_lastWins(how) == how

\* withHardTimeout, lines 594-600: the loop's settlement settles the returned
\* promise unless the timer has settled it before
Settle(how) == IF outcome = "pending" THEN how ELSE outcome

\* the async body returns jobs (line 721)
Return(why) ==
    /\ pc' = "done"
    /\ reason' = why
    /\ outcome' = Settle("OK")

\* variant: the async body ends on a fault by returning what it has
Throw_partial(why) ==
    /\ pc' = "failed"
    /\ reason' = why
    /\ outcome' = Settle("OK")

\* the async body throws
Throw(why) ==
    /\ pc' = "failed"
    /\ reason' = why
    /\ outcome' = Settle("FAULT")

\* withHardTimeout, line 593: the timer fires while the promise is pending;
\* the async body is not cancelled
HardTimeout ==
    /\ outcome = "pending"
    /\ outcome' = "TIMEOUT"
    /\ UNCHANGED <<pc, round, seen, jobs, stagnant, prevSeen, hrefs, polls,
                   pageUrl, blockVisible, details, reason, visits, okSinceNav>>
    /\ UNCHANGED grew
    /\ UNCHANGED nav

\* gotoWithTimeout, lines 377-384: page.goto is issued for the list root or
\* for a detail page; when the timer wins the race page.goto is not
\* cancelled.  A reference to the list region obtained before is stale.
Issued(target, unresolved) ==
    nav' = [last |-> target, pending |-> unresolved, located |-> FALSE]

\* variant: the reference to the list region is not obtained again
Locate_reuse == UNCHANGED nav

\* findLeftListScroller as called at lines 637, 692 and 696: the reference to
\* the list region is obtained from the document shown
Locate == nav' = [nav EXCEPT !.located = TRUE]

\* gotoWithTimeout, lines 377-384: the document shown after the navigation to
\* url was issued; a navigation that lost the race to the timer is not
\* cancelled and may still replace the document
Navigated(url, res) ==
    /\ pageUrl' \in (IF res = "ok" THEN {url} ELSE {url, pageUrl})
    /\ blockVisible' \in (IF pageUrl' = SEARCH_URL THEN BOOLEAN ELSE {FALSE})
    /\ okSinceNav' = FALSE

\* line 610
Open ==
    /\ pc = "open"
    /\ \E res \in NavResults :
        /\ Navigated(SEARCH_URL, res)
        /\ Issued("root", res = "timeout")
        /\ IF res = "ok"
           THEN /\ pc' = "detect0"
                /\ UNCHANGED <<reason, outcome>>
           ELSE Throw("NAV_TIMEOUT_search")
    /\ UNCHANGED <<round, seen, jobs, stagnant, prevSeen, hrefs, polls,
                   details, visits>>
    /\ UNCHANGED grew

\* variant: the links are counted before the block marker is looked for
DetectorPoll_linksFirst(blocked, count) ==
    IF polls >= MaxPolls THEN "BLOCKED"
    ELSE IF count > 0 THEN "OK"
    ELSE IF blocked THEN "BLOCKED"
    ELSE "AGAIN"

\* waitForJobsOrDetectBlock, lines 465-496: one poll of the detector, or the
\* end of its window; "BLOCKED", "OK" or "AGAIN"
DetectorPoll(blocked, count) ==
    IF polls >= MaxPolls THEN "BLOCKED"
    ELSE IF blocked THEN "BLOCKED"
    ELSE IF count > 0 THEN "OK"
    ELSE "AGAIN"

\* lines 613-618
DetectInit ==
    /\ pc = "detect0"
    /\ \E count \in 0..1 :
        LET state0 == DetectorPoll(blockVisible, count) IN
        /\ polls' = IF state0 = "AGAIN" THEN polls + 1 ELSE 0
        /\ okSinceNav' = IF state0 = "OK" THEN TRUE ELSE okSinceNav
        /\ CASE state0 = "BLOCKED" -> Throw("BLOCKED_OR_NO_JOBS")
             [] state0 = "OK" ->
                    \* line 626 with round = 0
                    IF round < MAX_SCROLL_ROUNDS
                    THEN pc' = "detect" /\ UNCHANGED <<reason, outcome>>
                    ELSE Return("max-rounds")
             [] OTHER -> UNCHANGED <<pc, reason, outcome>>
    /\ UNCHANGED <<round, seen, jobs, stagnant, prevSeen, hrefs,
                   pageUrl, blockVisible, details, visits>>
    /\ UNCHANGED grew
    /\ UNCHANGED nav

\* variant: a BLOCKED detector is run again instead of ending the harvest
DetectRound_retry ==
    /\ pc = "detect"
    /\ \E count \in 0..1 :
        LET state == DetectorPoll(blockVisible, count) IN
        /\ polls' = IF state = "AGAIN" THEN polls + 1 ELSE 0
        /\ okSinceNav' = IF state = "OK" THEN TRUE ELSE okSinceNav
        /\ pc' = IF state = "OK" THEN "collect" ELSE "detect"
        /\ UNCHANGED <<reason, outcome>>
    /\ UNCHANGED <<round, seen, jobs, stagnant, prevSeen, hrefs,
                   pageUrl, blockVisible, details, visits>>
    /\ UNCHANGED grew
    /\ UNCHANGED nav

\* lines 631-634
DetectRound ==
    /\ pc = "detect"
    /\ \E count \in 0..1 :
        LET state == DetectorPoll(blockVisible, count) IN
        /\ polls' = IF state = "AGAIN" THEN polls + 1 ELSE 0
        /\ okSinceNav' = IF state = "OK" THEN TRUE ELSE okSinceNav
        /\ CASE state = "BLOCKED" -> Throw("BLOCKED_MIDRUN")
             [] state = "OK" -> pc' = "collect" /\ UNCHANGED <<reason, outcome>>
             [] OTHER -> UNCHANGED <<pc, reason, outcome>>
    /\ UNCHANGED <<round, seen, jobs, stagnant, prevSeen, hrefs,
                   pageUrl, blockVisible, details, visits>>
    /\ UNCHANGED grew
    /\ UNCHANGED nav

\* lines 637-644; shown holds what the list region can hold at the read
CollectFrom(shown) ==
    /\ pc = "collect"
    /\ \E hrefsRaw \in shown : hrefs' = NormalizeHrefs(hrefsRaw)
    /\ pc' = "cand"
    /\ UNCHANGED <<round, seen, jobs, stagnant, prevSeen, polls, pageUrl,
                   blockVisible, details, reason, outcome, visits, okSinceNav>>
    /\ grew' = FALSE
    /\ Locate

\* lines 637-644, any list
Collect == CollectFrom(Listings)

\* variant: the cap test is off by one
CapReached_offByOne == Len(jobs) > MAX_RESULTS_TO_PROCESS

\* lines 649 and 686: jobs.length >= MAX_RESULTS_TO_PROCESS
CapReached == Len(jobs) >= MAX_RESULTS_TO_PROCESS

\* variant: the seen-set is not consulted
SeenHas_never(jobUrl) == FALSE

\* line 650: seen.has(jobUrl)
SeenHas(jobUrl) == jobUrl \in seen

\* variant: the break of line 649 is missing
HasCandidate_noBreak == hrefs # <<>>

\* the for-of loop of line 648 has a next element and does not break
HasCandidate == hrefs # <<>> /\ ~CapReached

\* line 650: continue
CandSkip ==
    /\ pc = "cand"
    /\ HasCandidate
    /\ SeenHas(Head(hrefs))
    /\ hrefs' = Tail(hrefs)
    /\ UNCHANGED <<pc, round, seen, jobs, stagnant, prevSeen, polls,
                   pageUrl, blockVisible, details, reason, outcome, visits,
                   okSinceNav>>
    /\ UNCHANGED grew
    /\ UNCHANGED nav

\* variant: the key is not marked before it is dispatched
CandDispatch_noAdd ==
    /\ pc = "cand"
    /\ hrefs # <<>>
    /\ Len(jobs) < MAX_RESULTS_TO_PROCESS
    /\ Head(hrefs) \notin seen
    /\ pc' = "gotoJob"
    /\ UNCHANGED <<round, seen, jobs, stagnant, prevSeen, hrefs, polls,
                   pageUrl, blockVisible, details, reason, outcome, visits,
                   okSinceNav>>
    /\ UNCHANGED grew
    /\ UNCHANGED nav

\* line 652: seen.add(jobUrl), then the try block is entered
CandDispatch ==
    /\ pc = "cand"
    /\ HasCandidate
    /\ ~SeenHas(Head(hrefs))
    /\ seen' = seen \cup {Head(hrefs)}
    /\ pc' = "gotoJob"
    /\ UNCHANGED <<round, jobs, stagnant, prevSeen, hrefs, polls,
                   pageUrl, blockVisible, details, reason, outcome, visits,
                   okSinceNav>>
    /\ grew' = TRUE
    /\ UNCHANGED nav

\* variant: the rejection of the detail navigation is not caught
GotoJob_uncaught ==
    /\ pc = "gotoJob"
    /\ visits' = [visits EXCEPT ![Head(hrefs)] = @ + 1]
    /\ \E res \in {"ok", "timeout"} :
        /\ pageUrl' \in (IF res = "ok" THEN {Head(hrefs)} ELSE {Head(hrefs), pageUrl})
        /\ blockVisible' = FALSE
        /\ okSinceNav' = FALSE
        /\ Issued("detail", res = "timeout")
        /\ IF res = "ok"
           THEN pc' = "read" /\ UNCHANGED <<reason, outcome>>
           ELSE /\ pc' = "failed"
                /\ reason' = "NAV_TIMEOUT_job"
                /\ outcome' = IF outcome = "pending" THEN "FAULT" ELSE outcome
    /\ UNCHANGED <<round, seen, jobs, stagnant, prevSeen, hrefs, polls, details>>
    /\ UNCHANGED grew

\* line 656; a rejection is caught at line 677
GotoJob ==
    /\ pc = "gotoJob"
    /\ visits' = [visits EXCEPT ![Head(hrefs)] = @ + 1]
    /\ \E res \in NavResults :
        /\ Navigated(Head(hrefs), res)
        /\ Issued("detail", res = "timeout")
        /\ pc' = IF res = "ok" THEN "read" ELSE "back"
    /\ UNCHANGED <<round, seen, jobs, stagnant, prevSeen, hrefs, polls,
                   details, reason, outcome>>
    /\ UNCHANGED grew

\* variant: the record replaces the records found before
PushIfMatch_keepLast(d, jobUrl) ==
    IF matchesAIandHR(Haystack(d)).ok THEN <<ApiJob(d, jobUrl)>> ELSE jobs

\* variant: the record is put in front
PushIfMatch_prepend(d, jobUrl) ==
    IF matchesAIandHR(Haystack(d)).ok THEN <<ApiJob(d, jobUrl)>> \o jobs ELSE jobs

\* lines 663-676: the record is pushed when the filter accepts
PushIfMatch(d, jobUrl) ==
    IF matchesAIandHR(Haystack(d)).ok THEN Append(jobs, ApiJob(d, jobUrl)) ELSE jobs

\* lines 657-676.  First disjunct: a call inside the try block rejects (the
\* waits of lines 657 and 536 are its only calls without a catch of their
\* own) and the rejection is caught at line 677.  Second: the page is read.
Read ==
    /\ pc = "read"
    /\ \/ /\ details' = NoDetails
          /\ UNCHANGED jobs
       \/ \E d \in DetailPages :
            /\ details' = d
            /\ jobs' = PushIfMatch(d, Head(hrefs))
    /\ pc' = "back"
    /\ UNCHANGED <<round, seen, stagnant, prevSeen, hrefs, polls, pageUrl,
                   blockVisible, reason, outcome, visits, okSinceNav>>
    /\ UNCHANGED grew
    /\ UNCHANGED nav

\* variant: the key of a candidate that faulted is taken out of seen
Back_forgetFaulted ==
    /\ pc = "back"
    /\ \E res \in NavResults : Navigated(SEARCH_URL, res)
    /\ Issued("root", FALSE)
    /\ seen' = IF details.read THEN seen ELSE seen \ {Head(hrefs)}
    /\ details' = NoDetails
    /\ hrefs' = Tail(hrefs)
    /\ pc' = "cand"
    /\ UNCHANGED <<round, jobs, stagnant, prevSeen, polls,
                   reason, outcome, visits, grew>>

\* variant: the list root is not loaded again after a candidate
Back_stay ==
    /\ pc = "back"
    /\ details' = NoDetails
    /\ hrefs' = Tail(hrefs)
    /\ pc' = "cand"
    /\ UNCHANGED <<round, seen, jobs, stagnant, prevSeen, polls, pageUrl,
                   blockVisible, okSinceNav, reason, outcome, visits, grew,
                   nav>>

\* lines 679-683: finally; the rejection of the navigation is swallowed.  The
\* page stays open during the harvest, so the wait of line 682 resolves; a
\* navigation that lost the race may settle during that wait, so it is not
\* recorded as unresolved.
Back ==
    /\ pc = "back"
    /\ \E res \in NavResults : Navigated(SEARCH_URL, res)
    /\ Issued("root", FALSE)
    /\ details' = NoDetails
    /\ hrefs' = Tail(hrefs)
    /\ pc' = "cand"
    /\ UNCHANGED <<round, seen, jobs, stagnant, prevSeen, polls,
                   reason, outcome, visits>>
    /\ UNCHANGED grew

\* the for-of loop is left (exhausted, or the break of line 649): lines 686-689
EndOfCandidates ==
    /\ pc = "cand"
    /\ ~HasCandidate
    /\ IF CapReached
       THEN Return("max-results") /\ UNCHANGED prevSeen
       ELSE /\ prevSeen' = Cardinality(seen)
            /\ pc' = "scroll"
            /\ UNCHANGED <<reason, outcome>>
    /\ UNCHANGED <<round, seen, jobs, stagnant, hrefs, polls, pageUrl,
                   blockVisible, details, visits, okSinceNav>>
    /\ UNCHANGED grew
    /\ UNCHANGED nav

\* variant: after the scroll the list is read again in the same round
Scroll_again ==
    /\ pc = "scroll"
    /\ pc' = "collect"
    /\ UNCHANGED <<round, seen, jobs, stagnant, prevSeen, hrefs, polls,
                   pageUrl, blockVisible, details, reason, outcome, visits,
                   okSinceNav>>
    /\ UNCHANGED grew
    /\ Locate

\* lines 692-693: scrollLeft swallows its errors
Scroll ==
    /\ pc = "scroll"
    /\ pc' = "recollect"
    /\ UNCHANGED <<round, seen, jobs, stagnant, prevSeen, hrefs, polls,
                   pageUrl, blockVisible, details, reason, outcome, visits,
                   okSinceNav>>
    /\ UNCHANGED grew
    /\ Locate

\* variant: the branches of the test are swapped
StagnantAfter_swapped == IF Cardinality(seen) = prevSeen THEN 0 ELSE stagnant + 1

\* lines 710-711
StagnantAfter == IF Cardinality(seen) = prevSeen THEN stagnant + 1 ELSE 0

\* variant: the loop has neither its break for stagnation nor its bound
Recollect_unbounded ==
    /\ pc = "recollect"
    /\ stagnant' = StagnantAfter
    /\ round' = round + 1
    /\ pc' = "detect"
    /\ UNCHANGED <<seen, jobs, prevSeen, hrefs, polls, pageUrl, blockVisible,
                   details, visits, okSinceNav, reason, outcome, grew>>
    /\ Locate

\* lines 696-718: the links read after the scroll (hrefsAfter, uniqueAfter)
\* feed the log line 707 only, so the read leaves the state as it is
Recollect ==
    /\ pc = "recollect"
    /\ stagnant' = StagnantAfter
    /\ IF stagnant' >= STAGNANT_LIMIT
       THEN Return("stagnant") /\ UNCHANGED round
       ELSE /\ round' = round + 1
            /\ IF round' < MAX_SCROLL_ROUNDS
               THEN pc' = "detect" /\ UNCHANGED <<reason, outcome>>
               ELSE Return("max-rounds")
    /\ UNCHANGED <<seen, jobs, prevSeen, hrefs, polls, pageUrl,
                   blockVisible, details, visits, okSinceNav>>
    /\ UNCHANGED grew
    /\ Locate

(***************************************************************************)
(* The static-list scenario: the list region holds the hrefs of catalog at  *)
(* every read, the list root loads, and the detector never returns BLOCKED.*)
(* The hard timer is left out: it does not act on the loop.                *)
(***************************************************************************)
StaticEnv ==
    /\ ~blockVisible'
    /\ polls' < MaxPolls
    /\ pc = "open" => pc' = "detect0"

(***************************************************************************)
(* The request surfaces and the session provider: runWithLinkedInSession   *)
(* (src/reuse-session.ts, lines 16-47), the handlers runJobsAiHr and       *)
(* runJobsSearch (same file, lines 53-122) and the Express route           *)
(* GET /api/v1/jobs (server.ts, lines 39-96).  A message is a sequence of  *)
(* tokens: its code and its detail.                                        *)
(***************************************************************************)
Handlers == {"runJobsAiHr", "runJobsSearch"}

Route == "GET /api/v1/jobs"

Surfaces == Handlers \cup {Route}

\* reuse-session.ts line 4, server.ts line 17
LINKEDIN_FEED_URL == <<Origin, "/feed/">>

\* reuse-session.ts lines 12-14, server.ts line 62
isLoggedOutOrChallengeUrl(url) ==
    \/ StrIncludes(url, "/login")
    \/ StrIncludes(url, "/checkpoint")
    \/ StrIncludes(url, "/challenge")

NoPage == [url |-> <<>>, loginVisible |-> FALSE, navVisible |-> FALSE]

\* what the navigation to the feed can show at domcontentloaded: the feed
\* with the navigation bar of a member, the feed address with a login form,
\* a document with neither (not rendered yet, or a guest wall), or a
\* redirection to a login, checkpoint or challenge address
LandingPages ==
    {[url |-> LINKEDIN_FEED_URL, loginVisible |-> FALSE, navVisible |-> TRUE],
     [url |-> LINKEDIN_FEED_URL, loginVisible |-> TRUE, navVisible |-> FALSE],
     [url |-> LINKEDIN_FEED_URL, loginVisible |-> FALSE, navVisible |-> FALSE],
     [url |-> <<Origin, "/authwall">>, loginVisible |-> FALSE, navVisible |-> FALSE],
     [url |-> <<Origin, "/login">>, loginVisible |-> TRUE, navVisible |-> FALSE],
     [url |-> <<Origin, "/checkpoint">>, loginVisible |-> FALSE, navVisible |-> FALSE],
     [url |-> <<Origin, "/challenge">>, loginVisible |-> FALSE, navVisible |-> FALSE]}

NoError == [kind |-> "none", message |-> <<>>]

\* new Error(message); kind names the fault for the properties and is read by
\* no operator of the model
Fault(kind, code, detail) == [kind |-> kind, message |-> <<code, detail>>]

\* reuse-session.ts line 18; server.ts: browser.newContext reads the file
SessionMissingFault(sf) ==
    IF sf \in Handlers
    THEN Fault("SessionMissing", "SESSION_MISSING", ": Session file not found")
    ELSE Fault("SessionMissing", "browserContext.newContext", ": ENOENT")

\* reuse-session.ts lines 34 and 39, server.ts line 63
AuthRequiredFault(detail) == Fault("AuthRequired", "AUTH_REQUIRED", detail)

\* the ways fetchLinkedInJobsAiHr ends: settlement and reason of the governor
FetchEndings ==
    {<<"OK", "stagnant">>, <<"OK", "max-results">>, <<"OK", "max-rounds">>,
     <<"FAULT", "NAV_TIMEOUT_search">>, <<"FAULT", "BLOCKED_OR_NO_JOBS">>,
     <<"FAULT", "BLOCKED_MIDRUN">>, <<"TIMEOUT", "none">>}

\* jobs-ai-hr.ts lines 381, 593, 615 and 633: the error a harvest rejects with
FetchFault(ending) ==
    CASE ending[1] = "TIMEOUT" ->
            Fault("HarvestTimeout", "TIMEOUT", ": Job fetch exceeded")
      [] ending[2] = "NAV_TIMEOUT_search" ->
            Fault("NavigationTimeout", ending[2], ": 60000ms")
      [] OTHER ->
            Fault("Blocked", ending[2], ": verification/anti-bot detected.")

NoResponse == [status |-> 0, ok |-> "absent", code |-> "absent", text |-> <<>>]

\* runJobsAiHr lines 60-68, runJobsSearch lines 100-109, server.ts lines 72-79
Success(sf) ==
    [status |-> 200,
     ok |-> IF sf \in Handlers THEN "true" ELSE "absent",
     code |-> "absent",
     text |-> <<>>]

\* runJobsAiHr lines 69-80, runJobsSearch lines 110-121: the catch clause
HandlerCatch(message) ==
    [status |-> IF StrIncludes(message, "AUTH_REQUIRED")
                   \/ StrIncludes(message, "SESSION_MISSING")
                THEN 401 ELSE 500,
     ok |-> "false",
     code |-> "absent",
     text |-> message]

\* server.ts lines 80-95: the catch clause
RouteCatch(msg) ==
    IF StrIncludes(msg, "AUTH_REQUIRED")
    THEN [status |-> 401, ok |-> "absent", code |-> "AUTH_REQUIRED",
          text |-> <<"Session expired or invalid.">>]
    ELSE [status |-> 500, ok |-> "absent", code |-> "INTERNAL_ERROR",
          text |-> msg]

Catch(sf, message) ==
    IF sf \in Handlers THEN HandlerCatch(message) ELSE RouteCatch(message)

ReqIdle ==
    /\ surface = "none"
    /\ rPc = "idle"
    /\ artifact = FALSE
    /\ landing = NoPage
    /\ browserOpen = FALSE
    /\ contextOpen = FALSE
    /\ workCalled = FALSE
    /\ err = NoError
    /\ response = NoResponse
    /\ sink = {}

\* a request arrives at one of the surfaces; the session file exists or not
ReqInit ==
    /\ surface \in Surfaces
    /\ rPc = IF surface \in Handlers THEN "start" ELSE "launch"
    /\ artifact \in BOOLEAN
    /\ landing = NoPage
    /\ browserOpen = FALSE
    /\ contextOpen = FALSE
    /\ workCalled = FALSE
    /\ err = NoError
    /\ response = NoResponse
    /\ sink = {}

\* an error thrown before the try block of runWithLinkedInSession (lines
\* 17-28), or anywhere in the try block of the route: the catch clause of the
\* entry point is next
ThrowOut(e) ==
    /\ err' = e
    /\ rPc' = "catch"

\* an error thrown inside the try block: in runWithLinkedInSession the
\* finally block (lines 43-46) runs first
Raise(e) ==
    /\ err' = e
    /\ rPc' = IF surface \in Handlers THEN "closeContext" ELSE "catch"

\* reuse-session.ts lines 17-19
SessionCheck ==
    /\ rPc = "start"
    /\ surface \in Handlers
    /\ IF artifact
       THEN rPc' = "launch" /\ UNCHANGED err
       ELSE ThrowOut(SessionMissingFault(surface))
    /\ UNCHANGED <<surface, artifact, landing, browserOpen, contextOpen,
                   workCalled, response>>
    /\ UNCHANGED sink

\* reuse-session.ts lines 21-24, server.ts lines 45-48
Launch ==
    /\ rPc = "launch"
    /\ \E ok \in BOOLEAN :
        IF ok
        THEN /\ browserOpen' = TRUE
             /\ rPc' = "newContext"
             /\ UNCHANGED err
        ELSE /\ ThrowOut(Fault("Internal", "browserType.launch", ": failed"))
             /\ UNCHANGED browserOpen
    /\ UNCHANGED <<surface, artifact, landing, contextOpen, workCalled,
                   response>>
    /\ UNCHANGED sink

\* reuse-session.ts line 26, server.ts lines 50-53: the storage state is read
\* from the session file
NewContext ==
    /\ rPc = "newContext"
    /\ \E ok \in BOOLEAN :
        IF ok /\ artifact
        THEN /\ contextOpen' = TRUE
             /\ rPc' = "newPage"
             /\ UNCHANGED err
        ELSE /\ ThrowOut(IF artifact
                         THEN Fault("Internal", "browser.newContext", ": failed")
                         ELSE SessionMissingFault(surface))
             /\ UNCHANGED contextOpen
    /\ UNCHANGED <<surface, artifact, landing, browserOpen, workCalled,
                   response>>
    /\ UNCHANGED sink

\* reuse-session.ts lines 27-28, server.ts lines 55-56
NewPage ==
    /\ rPc = "newPage"
    /\ \E ok \in BOOLEAN :
        IF ok
        THEN rPc' = "gotoFeed" /\ UNCHANGED err
        ELSE ThrowOut(Fault("Internal", "browserContext.newPage", ": failed"))
    /\ UNCHANGED <<surface, artifact, landing, browserOpen, contextOpen,
                   workCalled, response>>
    /\ UNCHANGED sink

\* reuse-session.ts line 31, server.ts line 60
GotoFeed ==
    /\ rPc = "gotoFeed"
    /\ \/ /\ landing' \in LandingPages
          /\ rPc' = "urlCheck"
          /\ UNCHANGED err
       \/ /\ Raise(Fault("Internal", "page.goto", ": Timeout"))
          /\ UNCHANGED landing
    /\ UNCHANGED <<surface, artifact, browserOpen, contextOpen, workCalled,
                   response>>
    /\ UNCHANGED sink

\* reuse-session.ts lines 33-35, server.ts lines 62-64
UrlCheck ==
    /\ rPc = "urlCheck"
    /\ IF isLoggedOutOrChallengeUrl(landing.url)
       THEN Raise(AuthRequiredFault(": Session expired"))
       ELSE /\ rPc' = IF surface \in Handlers THEN "formCheck" ELSE "work"
            /\ UNCHANGED err
    /\ UNCHANGED <<surface, artifact, landing, browserOpen, contextOpen,
                   workCalled, response>>
    /\ UNCHANGED sink

\* reuse-session.ts lines 37-40; isVisible() that rejects counts as false
LoginFormCheck ==
    /\ rPc = "formCheck"
    /\ \E loginVisible \in {landing.loginVisible, FALSE} :
        IF loginVisible
        THEN Raise(AuthRequiredFault(": LinkedIn login form detected."))
        ELSE rPc' = "work" /\ UNCHANGED err
    /\ UNCHANGED <<surface, artifact, landing, browserOpen, contextOpen,
                   workCalled, response>>
    /\ UNCHANGED sink

\* jobs-search.ts lines 26, 32 and 33: the call that rejects, "none" when
\* none does
WriteStages == {"mkdir", "txt", "json", "none"}

\* variant: the files are written before the harvest is awaited
Written_beforeHarvest(sf, ending, failAt) ==
    IF sf = "runJobsSearch" THEN {"txt", "json"} ELSE {}

\* jobs-search.ts lines 24-33: the files written by work(page); the harvest
\* is awaited first and its rejection leaves the function
Written(sf, ending, failAt) ==
    IF sf = "runJobsSearch" /\ ending[1] = "OK"
    THEN CASE failAt = "none" -> {"txt", "json"}
           [] failAt = "json" -> {"txt"}
           [] OTHER -> {}
    ELSE {}

\* reuse-session.ts line 42, server.ts line 67: work(page) is the harvest;
\* for runJobsSearch it is searchJobsAndWriteTxt (jobs-search.ts lines
\* 23-36), the harvest followed by the writing of the two output files
Work ==
    /\ rPc = "work"
    /\ workCalled' = TRUE
    /\ \E ending \in FetchEndings, failAt \in WriteStages :
        /\ outcome' = ending[1]
        /\ reason' = ending[2]
        /\ pc' = CASE ending[1] = "OK" -> "done"
                   [] ending[1] = "FAULT" -> "failed"
                   [] OTHER -> pc
        /\ sink' = Written(surface, ending, failAt)
        /\ IF ending[1] # "OK"
           THEN Raise(FetchFault(ending))
           ELSE IF surface = "runJobsSearch" /\ failAt # "none"
           THEN Raise(Fault("Internal", "EACCES", ": permission denied"))
           ELSE rPc' = "closeContext" /\ UNCHANGED err
    /\ UNCHANGED <<surface, artifact, landing, browserOpen, contextOpen,
                   response>>

\* reuse-session.ts line 44, server.ts line 69; when the call rejects the
\* statement after it is not reached
CloseContext ==
    /\ rPc = "closeContext"
    /\ \E ok \in BOOLEAN :
        IF ok
        THEN /\ contextOpen' = FALSE
             /\ rPc' = "closeBrowser"
             /\ UNCHANGED err
        ELSE /\ ThrowOut(Fault("Internal", "browserContext.close", ": failed"))
             /\ UNCHANGED contextOpen
    /\ UNCHANGED <<surface, artifact, landing, browserOpen, workCalled,
                   response>>
    /\ UNCHANGED sink

\* reuse-session.ts line 45, server.ts line 70
CloseBrowser ==
    /\ rPc = "closeBrowser"
    /\ \E ok \in BOOLEAN :
        IF ok
        THEN /\ browserOpen' = FALSE
             /\ rPc' = IF err = NoError THEN "return" ELSE "catch"
             /\ UNCHANGED err
        ELSE /\ ThrowOut(Fault("Internal", "browser.close", ": failed"))
             /\ UNCHANGED browserOpen
    /\ UNCHANGED <<surface, artifact, landing, contextOpen, workCalled,
                   response>>
    /\ UNCHANGED sink

\* the entry point answers: its return statement or its catch clause
Respond ==
    /\ rPc \in {"return", "catch"}
    /\ response' = IF rPc = "return" THEN Success(surface)
                                     ELSE Catch(surface, err.message)
    /\ rPc' = "end"
    /\ UNCHANGED <<surface, artifact, landing, browserOpen, contextOpen,
                   workCalled, err>>
    /\ UNCHANGED sink

(***************************************************************************)
(* waitForJobsOrDetectBlock on its own.  dScript[i] is what the i-th poll  *)
(* of the window sees: whether the first block marker is visible (lines    *)
(* 470-481) and how many candidate links the page holds (line 487).        *)
(***************************************************************************)
Observations == [blocked : BOOLEAN, count : 0..MaxCount]

NothingSeen == [blocked |-> FALSE, count |-> 0]

DetectorInit ==
    /\ dScript \in [1..MaxPolls -> Observations]
    /\ dResult = "none"

\* one turn of the while loop of line 467, or its end (line 495)
DetectorTurn ==
    /\ dResult = "none"
    /\ LET obs == IF polls < MaxPolls THEN dScript[polls + 1] ELSE NothingSeen
           state == DetectorPoll(obs.blocked, obs.count)
       IN  /\ polls' = IF state = "AGAIN" THEN polls + 1 ELSE polls
           /\ dResult' = IF state = "AGAIN" THEN "none" ELSE state
    /\ UNCHANGED dScript

(***************************************************************************)
(* findLeftListScroller and collectLeftHrefs on their own.  A document is  *)
(* the sequence, in document order, of its div, section, aside and main    *)
(* elements, taken as disjoint regions.  hint is the first of the four     *)
(* selectors of lines 391-394 the element matches, 0 when none; scrollable *)
(* is isScrollable (lines 397-399); links is the number of candidate links *)
(* inside.                                                                 *)
(***************************************************************************)
HintSelectors == 1..4

Heights == {0, 400, 1500}

LINK_WEIGHT == 100

HEIGHT_CAP == 1200

Elements ==
    [hint : {0} \cup HintSelectors, scrollable : BOOLEAN,
     links : 0..MaxLinks, clientHeight : Heights]

Documents == UNION {[1..n -> Elements] : n \in 0..MaxEls}

Min(a, b) == IF a < b THEN a ELSE b

\* document.querySelector of one hint selector: the first element in
\* document order that matches, 0 for null
QuerySelector(doc, h) ==
    IF \E i \in 1..Len(doc) : doc[i].hint = h
    THEN CHOOSE i \in 1..Len(doc) :
            /\ doc[i].hint = h
            /\ \A j \in 1..(i - 1) : doc[j].hint # h
    ELSE 0

\* lines 401-403: the first hinted element, in the order of the selectors,
\* that is scrollable and holds a candidate link; 0 when none
RECURSIVE FirstHint(_, _)
FirstHint(doc, h) ==
    IF h \notin HintSelectors THEN 0
    ELSE LET el == QuerySelector(doc, h) IN
         IF el # 0 /\ doc[el].scrollable /\ doc[el].links > 0 THEN el
         ELSE FirstHint(doc, h + 1)

\* line 413
Score(e) == e.links * LINK_WEIGHT + Min(e.clientHeight, HEIGHT_CAP)

\* lines 406-418: the scan of the fallback from element i on
RECURSIVE BestFrom(_, _, _, _)
BestFrom(doc, i, best, bestScore) ==
    IF i > Len(doc) THEN best
    ELSE IF ~doc[i].scrollable THEN BestFrom(doc, i + 1, best, bestScore)
    ELSE IF Score(doc[i]) > bestScore
         THEN BestFrom(doc, i + 1, i, Score(doc[i]))
         ELSE BestFrom(doc, i + 1, best, bestScore)

\* lines 386-423: the index of the element returned, 0 for null
findLeftListScroller(doc) ==
    IF FirstHint(doc, 1) # 0 THEN FirstHint(doc, 1)
    ELSE BestFrom(doc, 1, 0, 0)

RECURSIVE LinksFrom(_, _)
LinksFrom(doc, i) ==
    IF i > Len(doc) THEN 0 ELSE doc[i].links + LinksFrom(doc, i + 1)

\* lines 436-450: the number of hrefs read, from the whole page when the
\* scroller is null
collectLeftHrefs(doc, scroller) ==
    IF scroller = 0 THEN LinksFrom(doc, 1) ELSE doc[scroller].links

LocatorInit ==
    /\ lPage \in Documents
    /\ lOut = [el |-> 0, hrefs |-> 0]
    /\ lStage = 0

\* lines 637-639: the region is located and its links are read
LocateAndCollect ==
    /\ lStage = 0
    /\ lOut' = [el |-> findLeftListScroller(lPage),
                hrefs |-> collectLeftHrefs(lPage, findLeftListScroller(lPage))]
    /\ lStage' = 1
    /\ UNCHANGED lPage

(***************************************************************************)
(* readJobPageDetails on its own (lines 498-582).  xIn is what each        *)
(* operation on the page gives: a text, null, or a rejection.              *)
(***************************************************************************)
Rejected == <<"rejected">>

\* promise.catch(() => fallback)
Caught(read, fallback) == IF read = Rejected THEN fallback ELSE read

\* replace(/\s+/g, " "): a run of white space becomes one blank
RECURSIVE Collapse(_)
Collapse(s) ==
    IF Len(s) < 2 THEN s
    ELSE IF s[1] = " " /\ s[2] = " " THEN Collapse(Tail(s))
    ELSE <<Head(s)>> \o Collapse(Tail(s))

\* lines 334-336
normalizeText(s) == Trim(Collapse(IF s = Null THEN <<>> ELSE s))

\* lines 346-353: the date of a text that Date can parse, "" otherwise
toIsoDateOrEmpty(input) ==
    IF input = <<"2024-01-01T10:00:00Z">> THEN "2024-01-01" ELSE ""

TitleReads == {Rejected, Null, <<" ">>, <<"ai", " ", " ", "lead">>}

PageTitleReads == {Rejected, <<"hr", "jobs">>}

CompanyReads == {Rejected, Null, <<" ", "acme">>}

DescriptionReads == {Rejected, <<"for", "hr">>, <<"we", "use", "ai", "in", "hr">>}

FallbackReads == {Rejected, <<"all", "of", "the", "main", "region">>}

DatetimeReads == {Rejected, Null, <<"2024-01-01T10:00:00Z">>, <<"soon">>}

\* lines 533-537: the button is not visible (or isVisible rejects), the
\* click succeeds, or the click rejects
ShowMoreCases == {"hidden", "clicked", "clickRejected"}

ExtractorInputs ==
    [titleShown : BOOLEAN, title : TitleReads, pageTitle : PageTitleReads,
     company : CompanyReads, showMore : ShowMoreCases, waitOk : BOOLEAN,
     description : DescriptionReads, fallback : FallbackReads,
     datetime : DatetimeReads]

\* lines 550-553
TitleOf(in) ==
    LET fromHeader == normalizeText(Caught(in.title, <<>>))
        fromPage == normalizeText(Caught(in.pageTitle, <<>>))
    IN  IF fromHeader # <<>> THEN fromHeader
        ELSE IF fromPage # <<>> THEN fromPage
        ELSE <<"(unknown title)">>

\* lines 555-557
CompanyOf(in) ==
    LET read == normalizeText(Caught(in.company, <<>>))
    IN  IF read # <<>> THEN read ELSE <<"(unknown company)">>

\* lines 559-574
DescriptionOf(in) ==
    LET read == normalizeText(Caught(in.description, <<>>))
    IN  IF read = <<>> \/ Len(read) < MIN_DESCRIPTION
        THEN normalizeText(Caught(in.fallback, <<>>))
        ELSE read

\* lines 577-580
PostingDateOf(in) ==
    LET datetime == Caught(in.datetime, Null)
    IN  IF Truthy(datetime) THEN toIsoDateOrEmpty(datetime) ELSE ""

\* what a call that rejects gives its caller
Raised ==
    [raised |-> TRUE, jobTitle |-> <<>>, company |-> <<>>,
     description |-> <<>>, postingDate |-> ""]

\* variant: the read of the company name has no catch
readJobPageDetails_uncaughtCompany(in) ==
    IF in.company = Rejected \/ (in.showMore # "hidden" /\ ~in.waitOk)
    THEN Raised
    ELSE [raised |-> FALSE, jobTitle |-> TitleOf(in), company |-> CompanyOf(in),
          description |-> DescriptionOf(in), postingDate |-> PostingDateOf(in)]

\* lines 498-582.  The wait of line 536, reached when the button is visible,
\* is the one awaited call without a catch.
readJobPageDetails(in) ==
    IF in.showMore # "hidden" /\ ~in.waitOk
    THEN Raised
    ELSE [raised |-> FALSE, jobTitle |-> TitleOf(in), company |-> CompanyOf(in),
          description |-> DescriptionOf(in), postingDate |-> PostingDateOf(in)]

ExtractorInit ==
    /\ xIn \in ExtractorInputs
    /\ xOut = <<>>
    /\ xStage = 0

\* line 659
ReadDetails ==
    /\ xStage = 0
    /\ xOut' = readJobPageDetails(xIn)
    /\ xStage' = 1
    /\ UNCHANGED xIn

(***************************************************************************)
(* The first revision of the harvest: fetchLinkedInJobsAiHr at lines       *)
(* 225-294 of jobs-ai-hr.ts.  No detector, no hard timer, no return to the *)
(* list root between two candidates; the rejection of a detail navigation  *)
(* is swallowed and the page is read whatever it shows.                    *)
(***************************************************************************)
\* line 22
MAX_SCROLL_ROUNDS_FIRST == 25

\* line 285
STAGNANT_LIMIT_FIRST == 4

\* line 228: the navigation has no catch, its rejection ends the harvest
FirstOpen ==
    /\ pc = "open"
    /\ \E res \in NavResults :
        /\ Navigated(SEARCH_URL, res)
        /\ IF res = "ok"
           THEN /\ pc' = "wait"
                /\ UNCHANGED <<reason, outcome>>
           ELSE Throw("goto")
    /\ UNCHANGED <<round, seen, jobs, stagnant, prevSeen, hrefs, polls,
                   details, visits, grew, nav>>

\* waitForAnyJobLinks, lines 121-131, and line 233: one poll; the function
\* returns when a link is counted and also when its window is over
FirstWaitLinks ==
    /\ pc = "wait"
    /\ \E count \in 0..1 :
        IF count > 0 \/ polls >= MaxPolls
        THEN /\ pc' = "collect"
             /\ polls' = 0
        ELSE /\ polls' = polls + 1
             /\ UNCHANGED pc
    /\ UNCHANGED <<round, seen, jobs, stagnant, prevSeen, hrefs, pageUrl,
                   blockVisible, details, reason, outcome, visits,
                   okSinceNav, grew, nav>>

\* lines 241-249
FirstCollect ==
    /\ pc = "collect"
    /\ \E hrefsRaw \in Listings : hrefs' = NormalizeHrefs(hrefsRaw)
    /\ pc' = "cand"
    /\ UNCHANGED <<round, seen, jobs, stagnant, prevSeen, polls, pageUrl,
                   blockVisible, details, reason, outcome, visits,
                   okSinceNav, grew, nav>>

\* lines 251-253: a key met before is passed over
FirstSkip ==
    /\ pc = "cand"
    /\ hrefs # <<>>
    /\ ~CapReached
    /\ Head(hrefs) \in seen
    /\ hrefs' = Tail(hrefs)
    /\ UNCHANGED <<pc, round, seen, jobs, stagnant, prevSeen, polls, pageUrl,
                   blockVisible, details, reason, outcome, visits,
                   okSinceNav, grew, nav>>

\* lines 255-275: the key is marked, the navigation is tried (its rejection
\* is swallowed at line 258), the page shown is read and filtered
FirstVisit ==
    /\ pc = "cand"
    /\ hrefs # <<>>
    /\ ~CapReached
    /\ Head(hrefs) \notin seen
    /\ seen' = seen \cup {Head(hrefs)}
    /\ visits' = [visits EXCEPT ![Head(hrefs)] = @ + 1]
    /\ \E res \in NavResults, d \in DetailPages :
        /\ Navigated(Head(hrefs), res)
        /\ details' = d
        /\ jobs' = PushIfMatch(d, Head(hrefs))
    /\ hrefs' = Tail(hrefs)
    /\ UNCHANGED <<pc, round, stagnant, prevSeen, polls, reason, outcome,
                   grew, nav>>

\* lines 278-285: the end of the candidates or of the cap; prevSeen holds
\* lastSeen
FirstEndOfCandidates ==
    /\ pc = "cand"
    /\ hrefs = <<>> \/ CapReached
    /\ IF CapReached
       THEN /\ Return("max-results")
            /\ UNCHANGED <<stagnant, prevSeen>>
       ELSE /\ stagnant' = (IF Cardinality(seen) = prevSeen
                            THEN stagnant + 1 ELSE 0)
            /\ prevSeen' = Cardinality(seen)
            /\ IF stagnant' >= STAGNANT_LIMIT_FIRST
               THEN Return("stagnant")
               ELSE /\ pc' = "scroll"
                    /\ UNCHANGED <<reason, outcome>>
    /\ UNCHANGED <<round, seen, jobs, hrefs, polls, pageUrl, blockVisible,
                   details, visits, okSinceNav, grew, nav>>

\* lines 288-290 and the loop header of line 241: back to the list root
\* (rejection swallowed), the scroll, the next round or the return of
\* line 293
FirstBackScroll ==
    /\ pc = "scroll"
    /\ \E res \in NavResults : Navigated(SEARCH_URL, res)
    /\ round' = round + 1
    /\ IF round' < MAX_SCROLL_ROUNDS_FIRST
       THEN /\ pc' = "collect"
            /\ UNCHANGED <<reason, outcome>>
       ELSE Return("max-rounds")
    /\ UNCHANGED <<seen, jobs, stagnant, prevSeen, hrefs, polls, details,
                   visits, grew, nav>>


(***************************************************************************)
(* The revision with a diagnostic capture: withHardTimeout with its        *)
(* onTimeout callback and fetchLinkedInJobsAiHr, lines 242-333 of          *)
(* src/types/azure-functions.d.ts.  When the timer fires the callback      *)
(* first awaits the capture (dumpDebug) and rejects afterwards; the async  *)
(* body is not cancelled and goes on meanwhile.  capture is "armed" while  *)
(* the timer runs, "capturing" while the callback awaits the capture,      *)
(* "rejected" after its reject and "cleared" after a clearTimeout that     *)
(* came before the timer fired.                                            *)
(***************************************************************************)
\* line 48
MAX_SCROLL_ROUNDS_CAPTURE == 10

\* lines 249-255: the settlement of the async body clears the timer; a timer
\* that has fired is not undone
ClearTimer == capture' = IF capture = "armed" THEN "cleared" ELSE capture

\* lines 244-245: the timer fires while the async body is pending and the
\* callback starts the capture
CapTimerFires ==
    /\ capture = "armed"
    /\ outcome = "pending"
    /\ capture' = "capturing"
    /\ UNCHANGED govVars

\* lines 245-246 and dumpDebug, lines 77-90: the capture is over, whether it
\* succeeded or not, and the callback rejects
CapCaptureEnds ==
    /\ capture = "capturing"
    /\ capture' = "rejected"
    /\ outcome' = Settle("TIMEOUT")
    /\ UNCHANGED <<pc, round, seen, jobs, stagnant, prevSeen, hrefs, polls,
                   pageUrl, blockVisible, details, reason, visits,
                   okSinceNav, grew, nav>>

\* line 265: the navigation has no catch
CapOpen ==
    /\ pc = "open"
    /\ \E res \in NavResults :
        /\ Navigated(SEARCH_URL, res)
        /\ IF res = "ok"
           THEN /\ pc' = "detect0"
                /\ UNCHANGED <<reason, outcome, capture>>
           ELSE Throw("goto") /\ ClearTimer
    /\ UNCHANGED <<round, seen, jobs, stagnant, prevSeen, hrefs, polls,
                   details, visits, grew, nav>>

\* line 268 and waitForJobsOrDetectBlock, lines 152-183: one poll of the
\* detector, which tests in the order of DetectorPoll
CapDetect ==
    /\ pc = "detect0"
    /\ \E count \in 0..1 :
        LET state == DetectorPoll(blockVisible, count) IN
        /\ polls' = IF state = "AGAIN" THEN polls + 1 ELSE 0
        /\ okSinceNav' = IF state = "OK" THEN TRUE ELSE okSinceNav
        /\ pc' = CASE state = "BLOCKED" -> "dump"
                   [] state = "OK" -> "collect"
                   [] OTHER -> pc
    /\ UNCHANGED <<round, seen, jobs, stagnant, prevSeen, hrefs, pageUrl,
                   blockVisible, details, reason, outcome, visits, grew,
                   nav, capture>>

\* lines 269-274: the capture of the blocked page is over and the async body
\* throws
CapBlocked ==
    /\ pc = "dump"
    /\ Throw("BLOCKED_OR_NO_JOBS")
    /\ ClearTimer
    /\ UNCHANGED govRest

\* lines 276-287
CapCollect ==
    /\ pc = "collect"
    /\ \E hrefsRaw \in Listings : hrefs' = NormalizeHrefs(hrefsRaw)
    /\ pc' = "cand"
    /\ UNCHANGED <<round, seen, jobs, stagnant, prevSeen, polls, pageUrl,
                   blockVisible, details, reason, outcome, visits,
                   okSinceNav, grew, nav, capture>>

\* lines 291-293
CapSkip ==
    /\ pc = "cand"
    /\ hrefs # <<>>
    /\ ~CapReached
    /\ Head(hrefs) \in seen
    /\ hrefs' = Tail(hrefs)
    /\ UNCHANGED <<pc, round, seen, jobs, stagnant, prevSeen, polls, pageUrl,
                   blockVisible, details, reason, outcome, visits,
                   okSinceNav, grew, nav, capture>>

\* lines 295-314: the key is marked, the navigation is tried (its rejection
\* is swallowed at line 298), the page shown is read and filtered; the
\* record carries no posting date
CapVisit ==
    /\ pc = "cand"
    /\ hrefs # <<>>
    /\ ~CapReached
    /\ Head(hrefs) \notin seen
    /\ seen' = seen \cup {Head(hrefs)}
    /\ visits' = [visits EXCEPT ![Head(hrefs)] = @ + 1]
    /\ \E res \in NavResults, d \in DetailPages :
        /\ Navigated(Head(hrefs), res)
        /\ details' = [d EXCEPT !.postingDate = ""]
        /\ jobs' = PushIfMatch(details', Head(hrefs))
    /\ hrefs' = Tail(hrefs)
    /\ UNCHANGED <<pc, round, stagnant, prevSeen, polls, reason, outcome,
                   grew, nav, capture>>

\* lines 317-326 and the loop header of line 281: the cap ends the loop;
\* else back to the list root (rejection swallowed), the scroll and the
\* next round, or the return of line 326 after the last round
CapEndOfRound ==
    /\ pc = "cand"
    /\ hrefs = <<>> \/ CapReached
    /\ IF CapReached
       THEN /\ Return("max-results")
            /\ ClearTimer
            /\ UNCHANGED <<round, pageUrl, blockVisible, okSinceNav>>
       ELSE /\ \E res \in NavResults : Navigated(SEARCH_URL, res)
            /\ round' = round + 1
            /\ IF round' < MAX_SCROLL_ROUNDS_CAPTURE
               THEN /\ pc' = "collect"
                    /\ UNCHANGED <<reason, outcome, capture>>
               ELSE Return("max-rounds") /\ ClearTimer
    /\ UNCHANGED <<seen, jobs, stagnant, prevSeen, hrefs, polls, details,
                   visits, grew, nav>>


DetectorIdle == dScript = <<>> /\ dResult = "none"

LocatorIdle == lPage = <<>> /\ lOut = [el |-> 0, hrefs |-> 0] /\ lStage = 0

ExtractorIdle == xIn = <<>> /\ xOut = <<>> /\ xStage = 0

\* no harness of a single function is running
ToolIdle ==
    /\ DetectorIdle
    /\ LocatorIdle
    /\ ExtractorIdle
    /\ capture = "none"

Init ==
    /\ GovInit
    /\ NormIdle
    /\ ReqIdle
    /\ ToolIdle
    /\ catalog = <<>>

Next ==
    \/ Open /\ UNCHANGED besideGov
    \/ DetectInit /\ UNCHANGED besideGov
    \/ DetectRound /\ UNCHANGED besideGov
    \/ Collect /\ UNCHANGED besideGov
    \/ CandSkip /\ UNCHANGED besideGov
    \/ CandDispatch /\ UNCHANGED besideGov
    \/ GotoJob /\ UNCHANGED besideGov
    \/ Read /\ UNCHANGED besideGov
    \/ Back /\ UNCHANGED besideGov
    \/ EndOfCandidates /\ UNCHANGED besideGov
    \/ Scroll /\ UNCHANGED besideGov
    \/ Recollect /\ UNCHANGED besideGov
    \/ HardTimeout /\ UNCHANGED besideGov

Spec == Init /\ [][Next]_vars

\* normalizeJobUrl alone, no harvest running
InitNorm == GovInit /\ NormInit /\ ReqIdle /\ ToolIdle /\ catalog = <<>>

NextNorm ==
    \/ NormCall /\ UNCHANGED <<govVars, reqVars, catalog, toolVars>>
    \/ NormRecall /\ UNCHANGED <<govVars, reqVars, catalog, toolVars>>

SpecNorm == InitNorm /\ [][NextNorm]_vars

\* a harvest over a static list that is never blocked
InitStatic ==
    /\ GovInit
    /\ NormIdle
    /\ ReqIdle
    /\ ToolIdle
    /\ catalog \in Listings \ {<<>>}

NextStatic ==
    \/ Open /\ StaticEnv /\ UNCHANGED besideGov
    \/ DetectInit /\ StaticEnv /\ UNCHANGED besideGov
    \/ DetectRound /\ StaticEnv /\ UNCHANGED besideGov
    \/ CollectFrom({catalog}) /\ StaticEnv /\ UNCHANGED besideGov
    \/ CandSkip /\ StaticEnv /\ UNCHANGED besideGov
    \/ CandDispatch /\ StaticEnv /\ UNCHANGED besideGov
    \/ GotoJob /\ StaticEnv /\ UNCHANGED besideGov
    \/ Read /\ StaticEnv /\ UNCHANGED besideGov
    \/ Back /\ StaticEnv /\ UNCHANGED besideGov
    \/ EndOfCandidates /\ StaticEnv /\ UNCHANGED besideGov
    \/ Scroll /\ StaticEnv /\ UNCHANGED besideGov
    \/ Recollect /\ StaticEnv /\ UNCHANGED besideGov

\* every await of the loop settles: each is bounded by a timer
SpecStatic == InitStatic /\ [][NextStatic]_vars /\ WF_vars(NextStatic)

\* one request served by one of the surfaces
InitRequest ==
    /\ GovInit
    /\ NormIdle
    /\ ReqInit
    /\ ToolIdle
    /\ catalog = <<>>

NextRequest ==
    \/ SessionCheck /\ UNCHANGED <<govVars, normVars, catalog, toolVars>>
    \/ Launch /\ UNCHANGED <<govVars, normVars, catalog, toolVars>>
    \/ NewContext /\ UNCHANGED <<govVars, normVars, catalog, toolVars>>
    \/ NewPage /\ UNCHANGED <<govVars, normVars, catalog, toolVars>>
    \/ GotoFeed /\ UNCHANGED <<govVars, normVars, catalog, toolVars>>
    \/ UrlCheck /\ UNCHANGED <<govVars, normVars, catalog, toolVars>>
    \/ LoginFormCheck /\ UNCHANGED <<govVars, normVars, catalog, toolVars>>
    \/ Work /\ UNCHANGED <<govRest, normVars, catalog, toolVars>>
    \/ CloseContext /\ UNCHANGED <<govVars, normVars, catalog, toolVars>>
    \/ CloseBrowser /\ UNCHANGED <<govVars, normVars, catalog, toolVars>>
    \/ Respond /\ UNCHANGED <<govVars, normVars, catalog, toolVars>>

SpecRequest == InitRequest /\ [][NextRequest]_vars

(***************************************************************************)
(* The growing-list scenario: an endless list.  At the read of round r the *)
(* list region holds r + 1 postings, one more than at the round before;    *)
(* the list root loads, the detector never returns BLOCKED, the hard timer *)
(* does not fire and fewer records than the cap are matched.               *)
(***************************************************************************)
RECURSIVE Digits(_)
Digits(n) == IF n = 0 THEN <<>> ELSE <<"1">> \o Digits(n - 1)

\* the href of the i-th posting of the list: /jobs/view/1, /jobs/view/11, ...
Posting(i) == <<Marker>> \o Digits(i)

GrowingList(r) == [i \in 1..(r + 1) |-> Posting(i)]

GrowingKeys == {normalizeJobUrl(Posting(i)) : i \in 1..(MAX_SCROLL_ROUNDS + 1)}

GrowingEnv ==
    /\ StaticEnv
    /\ Len(jobs') < MAX_RESULTS_TO_PROCESS

InitGrowing ==
    /\ GovInitOver(GrowingKeys)
    /\ NormIdle
    /\ ReqIdle
    /\ ToolIdle
    /\ catalog = <<>>

NextGrowing ==
    \/ Open /\ GrowingEnv /\ UNCHANGED besideGov
    \/ DetectInit /\ GrowingEnv /\ UNCHANGED besideGov
    \/ DetectRound /\ GrowingEnv /\ UNCHANGED besideGov
    \/ CollectFrom({GrowingList(round)}) /\ GrowingEnv /\ UNCHANGED besideGov
    \/ CandSkip /\ GrowingEnv /\ UNCHANGED besideGov
    \/ CandDispatch /\ GrowingEnv /\ UNCHANGED besideGov
    \/ GotoJob /\ GrowingEnv /\ UNCHANGED besideGov
    \/ Read /\ GrowingEnv /\ UNCHANGED besideGov
    \/ Back /\ GrowingEnv /\ UNCHANGED besideGov
    \/ EndOfCandidates /\ GrowingEnv /\ UNCHANGED besideGov
    \/ Scroll /\ GrowingEnv /\ UNCHANGED besideGov
    \/ Recollect /\ GrowingEnv /\ UNCHANGED besideGov

SpecGrowing == InitGrowing /\ [][NextGrowing]_vars

(***************************************************************************)
(* The harvest as the work of runWithLinkedInSession: runJobsAiHr has      *)
(* reached `return await work(page)` (reuse-session.ts line 42) with the   *)
(* browser and the context open, and the governor runs on that page.  When *)
(* the promise of withHardTimeout settles, the finally block of lines      *)
(* 43-46 closes the context and the browser.                               *)
(***************************************************************************)
\* the positions of the loop at which the next step is an awaited operation
\* on the page
PagePositions ==
    {"open", "detect0", "detect", "collect", "gotoJob", "read", "back",
     "scroll", "recollect"}

\* reuse-session.ts line 42: the awaited promise has settled
WorkSettled ==
    /\ rPc = "work"
    /\ outcome # "pending"
    /\ IF outcome = "OK"
       THEN rPc' = "closeContext" /\ UNCHANGED err
       ELSE Raise(FetchFault(<<outcome, reason>>))
    /\ UNCHANGED <<surface, artifact, landing, browserOpen, contextOpen,
                   workCalled, response>>
    /\ UNCHANGED sink

\* the loop, not cancelled by the hard timer, issues its next operation on
\* the page of a closed context: the operation rejects, and the rejection
\* leaves the async body (the waits of lines 485 and 682, the navigation of
\* line 610 and findLeftListScroller are awaited outside any catch)
OnClosedContext ==
    /\ ~contextOpen
    /\ pc \in PagePositions
    /\ Throw("TARGET_CLOSED")
    /\ UNCHANGED govRest

InitBorrow ==
    /\ GovInit
    /\ NormIdle
    /\ ToolIdle
    /\ catalog = <<>>
    /\ surface = "runJobsAiHr"
    /\ rPc = "work"
    /\ artifact = TRUE
    /\ landing = [url |-> LINKEDIN_FEED_URL, loginVisible |-> FALSE,
                  navVisible |-> TRUE]
    /\ browserOpen = TRUE
    /\ contextOpen = TRUE
    /\ workCalled = TRUE
    /\ err = NoError
    /\ response = NoResponse
    /\ sink = {}

NextBorrow ==
    \/ Open /\ contextOpen /\ UNCHANGED besideGov
    \/ DetectInit /\ contextOpen /\ UNCHANGED besideGov
    \/ DetectRound /\ contextOpen /\ UNCHANGED besideGov
    \/ Collect /\ contextOpen /\ UNCHANGED besideGov
    \/ CandSkip /\ UNCHANGED besideGov
    \/ CandDispatch /\ UNCHANGED besideGov
    \/ GotoJob /\ contextOpen /\ UNCHANGED besideGov
    \/ Read /\ contextOpen /\ UNCHANGED besideGov
    \/ Back /\ contextOpen /\ UNCHANGED besideGov
    \/ EndOfCandidates /\ UNCHANGED besideGov
    \/ Scroll /\ contextOpen /\ UNCHANGED besideGov
    \/ Recollect /\ contextOpen /\ UNCHANGED besideGov
    \/ OnClosedContext /\ UNCHANGED besideGov
    \/ HardTimeout /\ UNCHANGED besideGov
    \/ WorkSettled /\ UNCHANGED <<govVars, normVars, catalog, toolVars>>
    \/ CloseContext /\ UNCHANGED <<govVars, normVars, catalog, toolVars>>
    \/ CloseBrowser /\ UNCHANGED <<govVars, normVars, catalog, toolVars>>
    \/ Respond /\ UNCHANGED <<govVars, normVars, catalog, toolVars>>

SpecBorrow == InitBorrow /\ [][NextBorrow]_vars

\* the detector alone, over every script of observations
InitDetector ==
    /\ GovInit
    /\ NormIdle
    /\ ReqIdle
    /\ DetectorInit
    /\ LocatorIdle
    /\ ExtractorIdle
    /\ capture = "none"
    /\ catalog = <<>>

NextDetector ==
    DetectorTurn
        /\ UNCHANGED <<govBesidePolls, normVars, reqVars, catalog,
                       locVars, extVars, capture>>

\* every poll ends: each of its waits carries a timeout
SpecDetector ==
    InitDetector /\ [][NextDetector]_vars /\ WF_vars(NextDetector)

\* the locator alone, over every document
InitLocator ==
    /\ GovInit
    /\ NormIdle
    /\ ReqIdle
    /\ DetectorIdle
    /\ LocatorInit
    /\ ExtractorIdle
    /\ capture = "none"
    /\ catalog = <<>>

NextLocator ==
    LocateAndCollect
        /\ UNCHANGED <<govVars, normVars, reqVars, catalog, detVars,
                       extVars, capture>>

SpecLocator == InitLocator /\ [][NextLocator]_vars

\* the extractor alone, over every combination of reads
InitExtractor ==
    /\ GovInit
    /\ NormIdle
    /\ ReqIdle
    /\ DetectorIdle
    /\ LocatorIdle
    /\ ExtractorInit
    /\ capture = "none"
    /\ catalog = <<>>

NextExtractor ==
    ReadDetails
        /\ UNCHANGED <<govVars, normVars, reqVars, catalog, detVars,
                       locVars, capture>>

SpecExtractor == InitExtractor /\ [][NextExtractor]_vars

\* a harvest of the first revision
InitFirst ==
    /\ GovInit
    /\ NormIdle
    /\ ReqIdle
    /\ ToolIdle
    /\ catalog = <<>>

NextFirst ==
    \/ FirstOpen /\ UNCHANGED besideGov
    \/ FirstWaitLinks /\ UNCHANGED besideGov
    \/ FirstCollect /\ UNCHANGED besideGov
    \/ FirstSkip /\ UNCHANGED besideGov
    \/ FirstVisit /\ UNCHANGED besideGov
    \/ FirstEndOfCandidates /\ UNCHANGED besideGov
    \/ FirstBackScroll /\ UNCHANGED besideGov

SpecFirst == InitFirst /\ [][NextFirst]_vars

\* a harvest of the revision with a diagnostic capture, under its hard timer
InitCapture ==
    /\ GovInit
    /\ NormIdle
    /\ ReqIdle
    /\ DetectorIdle
    /\ LocatorIdle
    /\ ExtractorIdle
    /\ capture = "armed"
    /\ catalog = <<>>

besideCapture == <<normVars, reqVars, catalog, detVars, locVars, extVars>>

NextCapture ==
    \/ CapOpen /\ UNCHANGED besideCapture
    \/ CapDetect /\ UNCHANGED besideCapture
    \/ CapBlocked /\ UNCHANGED besideCapture
    \/ CapCollect /\ UNCHANGED besideCapture
    \/ CapSkip /\ UNCHANGED besideCapture
    \/ CapVisit /\ UNCHANGED besideCapture
    \/ CapEndOfRound /\ UNCHANGED besideCapture
    \/ CapTimerFires /\ UNCHANGED besideCapture
    \/ CapCaptureEnds /\ UNCHANGED besideCapture

SpecCapture == InitCapture /\ [][NextCapture]_vars



(***************************************************************************)
(* Properties.                                                             *)
(***************************************************************************)
Links == {jobs[i].link : i \in 1..Len(jobs)}

AtCap == Len(jobs) >= MAX_RESULTS_TO_PROCESS

\* C1: in every state of a harvest the result sequence holds at most
\* MAX_RESULTS_TO_PROCESS records.
C1_ResultsWithinCap == Len(jobs) <= MAX_RESULTS_TO_PROCESS

\* the cap is reached while a candidate that was never seen is still listed
C1_Witness ==
    /\ pc = "cand"
    /\ Len(jobs) = MAX_RESULTS_TO_PROCESS
    /\ hrefs # <<>>
    /\ Head(hrefs) \notin seen

\* C2: the link values of the records in jobs are pairwise distinct.
C2_LinksDistinct ==
    \A i, j \in 1..Len(jobs) : i # j => jobs[i].link # jobs[j].link

\* in a later round the list shows again a key whose record is in jobs
C2_Witness ==
    /\ pc = "cand"
    /\ round >= 1
    /\ hrefs # <<>>
    /\ Head(hrefs) \in Links

\* C3: for every key at most one detail navigation is issued in a harvest.
C3_OneVisitPerKey == \A k \in Keys : visits[k] <= 1

\* a key that was dispatched before without yielding a record (no match or a
\* fault) is listed again in a later round
C3_Witness ==
    /\ pc = "cand"
    /\ round >= 1
    /\ hrefs # <<>>
    /\ visits[Head(hrefs)] = 1
    /\ Head(hrefs) \notin Links

\* C4 (as claimed): normalizeJobUrl applied to a key it returned gives that key.
C4_NormalizeIdempotent == nStage = 2 => nOut = nIn

\* C5 (as claimed): every key normalizeJobUrl returns has the detail path
\* shape, "/jobs/view/" in its path.
C5_KeysHavePathShape == (nStage >= 1 /\ nOut # Null) => HasPathShape(nOut)

\* C6 (as claimed): a key normalizeJobUrl returns holds neither a query nor a
\* fragment.
C6_KeysHaveNoQueryNoFragment ==
    (nStage >= 1 /\ nOut # Null) => (~StrIncludes(nOut, "?") /\ ~StrIncludes(nOut, "#"))

\* C7: once the cap is reached no key is added to seen, no detail navigation is
\* issued and no record is added; the governor then only returns to the list
\* root and leaves both loops, ending "done" for max-results with exactly
\* MAX_RESULTS_TO_PROCESS records.
C7_CapStopsTheHarvest ==
    /\ [][AtCap => (seen' = seen /\ visits' = visits /\ jobs' = jobs)]_vars
    /\ [](AtCap =>
            \/ pc \in {"back", "cand"}
            \/ /\ pc = "done"
               /\ reason = "max-results"
               /\ Len(jobs) = MAX_RESULTS_TO_PROCESS)
    /\ [][(AtCap /\ pc = "cand" /\ pc' # pc) => pc' = "done"]_vars

\* the harvest has ended by the cap and a listed candidate was never visited
C7_Witness ==
    /\ pc = "done"
    /\ reason = "max-results"
    /\ hrefs # <<>>
    /\ visits[Head(hrefs)] = 0

BothTopics(d) == AI_REGEX(Haystack(d)) /\ HR_REGEX(Haystack(d))

\* C8: the record of a candidate is appended exactly when its detail page was
\* read without fault and both topic patterns match title, organization and
\* description; its link is the candidate's key; jobs changes nowhere else.
C8_AppendIffBothTopics ==
    /\ [][(pc = "read" /\ pc' = "back") =>
            IF details'.read /\ BothTopics(details')
            THEN /\ Len(jobs') = Len(jobs) + 1
                 /\ SubSeq(jobs', 1, Len(jobs)) = jobs
                 /\ jobs'[Len(jobs')].link = Head(hrefs)
                 /\ jobs'[Len(jobs')].jobTitle = details'.jobTitle
                 /\ jobs'[Len(jobs')].company = details'.company
                 /\ jobs'[Len(jobs')].description = details'.description
            ELSE jobs' = jobs]_vars
    /\ [][jobs' # jobs => (pc = "read" /\ pc' = "back")]_vars

\* a page with topic A only was read and its candidate is not in jobs, while
\* an earlier candidate is
C8_Witness ==
    /\ pc = "back"
    /\ details.read
    /\ AI_REGEX(Haystack(details))
    /\ ~HR_REGEX(Haystack(details))
    /\ Head(hrefs) \notin Links
    /\ Len(jobs) >= 1

C10_CollectOnlyAfterDetectorOK == pc \in {"collect", "recollect"} => okSinceNav

Ended == pc \in {"done", "failed"}

BlockedReasons == {"BLOCKED_OR_NO_JOBS", "BLOCKED_MIDRUN"}

\* the running detector returns BLOCKED at its next poll: a block marker is
\* shown, or its window is used up
DetectorSaysBlocked ==
    pc \in {"detect0", "detect"} /\ (blockVisible \/ polls >= MaxPolls)

\* C11: when the detector returns BLOCKED, at the start or at the top of a
\* round, the governor fails at that step with a Blocked reason, the detector
\* is not run again, and from then on nothing is navigated, collected,
\* scrolled or extracted: no variable of the loop changes any more.
C11_BlockedAbortsAtOnce ==
    /\ [][(DetectorSaysBlocked /\ <<pc, polls>> # <<pc', polls'>>) =>
            /\ pc' = "failed"
            /\ reason' = (IF pc = "detect0" THEN "BLOCKED_OR_NO_JOBS"
                                            ELSE "BLOCKED_MIDRUN")
            /\ outcome' \in {"FAULT", "TIMEOUT"}]_vars
    /\ [][(pc = "failed" /\ reason \in BlockedReasons) =>
            UNCHANGED <<pc, round, seen, jobs, stagnant, prevSeen, hrefs,
                        polls, pageUrl, blockVisible, details, reason,
                        visits, okSinceNav>>]_vars
    /\ [](reason \in BlockedReasons => pc = "failed")

\* the detector found the block marker at the top of a later round, after
\* records were collected; the harvest failed and its call ended as a fault
C11_Witness ==
    /\ pc = "failed"
    /\ reason = "BLOCKED_MIDRUN"
    /\ blockVisible
    /\ round >= 1
    /\ Len(jobs) >= 1
    /\ outcome = "FAULT"

\* C13: the hard timer settles the call as TIMEOUT whenever it fires while
\* the call is pending, at any position of the loop; a call settled as
\* TIMEOUT stays so whatever the loop does afterwards; the call is pending
\* only while the loop has not completed.
C13_TimerSettlesAsTimeout ==
    /\ [](outcome = "pending" => ENABLED HardTimeout)
    /\ [][(outcome = "pending" /\ outcome' = "TIMEOUT") => pc' = pc]_vars
    /\ [][outcome = "TIMEOUT" => outcome' = "TIMEOUT"]_vars
    /\ [](Ended => outcome # "pending")

\* the timer fired during the harvest; the loop went on and returned records,
\* and the call is still settled as TIMEOUT
C13_Witness ==
    /\ outcome = "TIMEOUT"
    /\ pc = "done"
    /\ Len(jobs) >= 1

\* C14 (as claimed): once the call is settled as TIMEOUT the loop is stopped:
\* nothing is navigated, collected or scrolled and neither seen nor jobs
\* changes.
C14_TimeoutStopsTheLoop ==
    [][outcome = "TIMEOUT" =>
        UNCHANGED <<pc, round, seen, jobs, hrefs, pageUrl, visits>>]_vars

\* C18 (as claimed): a navigation that times out never ends the harvest, on a
\* detail page or on the list root: the governor fails for a Blocked reason
\* only.
C18_NavTimeoutNeverFatal == pc = "failed" => reason \in BlockedReasons

\* C20 (as claimed): at the end of a round that did not stop by the cap,
\* stagnant becomes 0 if a key was added to seen during the round and grows
\* by one otherwise; a harvest that stops for stagnation added no key in its
\* last round.
C20_StagnantResetOnGrowth ==
    /\ [][(pc = "recollect" /\ pc' # pc) =>
            stagnant' = (IF grew THEN 0 ELSE stagnant + 1)]_vars
    /\ []((pc = "done" /\ reason = "stagnant") => ~grew)

\* C12 (as claimed): a harvest over a static list that is never blocked ends
\* done by stagnation.
C12_StaticListEndsStagnant == Ended => (pc = "done" /\ reason = "stagnant")

\* C12 (amended): a harvest over a static list that is never blocked starts
\* at most STAGNANT_LIMIT rounds and ends done, by stagnation or, when the
\* list holds enough matching postings, by max-results before.
C12_StaticListEndsDone ==
    /\ [](round < STAGNANT_LIMIT)
    /\ [](Ended =>
            /\ pc = "done"
            /\ reason \in {"stagnant", "max-results"}
            /\ (reason = "max-results" <=> AtCap)
            /\ (reason = "stagnant" => stagnant = STAGNANT_LIMIT))
    /\ <>Ended

\* the static list was read in STAGNANT_LIMIT rounds, the first of which
\* dispatched its links, and the harvest ended by stagnation with a record
C12_Witness ==
    /\ pc = "done"
    /\ reason = "stagnant"
    /\ round = STAGNANT_LIMIT - 1
    /\ seen # {}
    /\ Len(jobs) >= 1
    /\ hrefs = <<>>

\* C15 (as claimed): when a request served through runWithLinkedInSession has
\* been answered, the browser context and the browser are closed, whatever
\* the exit path.
C15_SessionReleasedOnEveryExit ==
    (surface \in Handlers /\ rPc = "end") => (~contextOpen /\ ~browserOpen)

\* the landing page is at a login, checkpoint or challenge address
AtLoginAddress(page) ==
    \E t \in {"/login", "/checkpoint", "/challenge"} : StrIncludes(page.url, t)

\* C16 (as claimed): without a session file the provider launches no browser
\* and fails with SessionMissing; work is invoked only when the landing page
\* is at no login, checkpoint or challenge address and shows the markers of
\* an authenticated member.
C16_WorkOnlyWhenAuthenticated ==
    /\ (surface \in Handlers /\ ~artifact) =>
            /\ ~browserOpen
            /\ ~workCalled
            /\ rPc \in {"start", "catch", "end"}
            /\ (rPc # "start" => err.kind = "SessionMissing")
    /\ (surface \in Handlers /\ workCalled) =>
            /\ artifact
            /\ ~AtLoginAddress(landing)
            /\ landing.navVisible

\* C17 (as claimed): at every surface the answer has status 200 after a
\* harvest without fault, 401 after an AuthRequired or SessionMissing fault,
\* and 500 with the fault message after any other fault.
C17_StatusByFaultKind ==
    rPc = "end" =>
        /\ response.status =
                (IF err = NoError THEN 200
                 ELSE IF err.kind \in {"AuthRequired", "SessionMissing"} THEN 401
                 ELSE 500)
        /\ (response.status = 500 => response.text = err.message)

\* the cause classes of the fatal faults
CauseClass(kind) ==
    CASE kind \in {"SessionMissing", "AuthRequired"} -> "client-fixable"
      [] kind = "HarvestTimeout" -> "transient"
      [] kind = "Blocked" -> "structural"
      [] OTHER -> "unclassified"

\* the fatal faults a request can end with
FatalFaults ==
    {SessionMissingFault(sf) : sf \in Surfaces}
    \cup {AuthRequiredFault(": Session expired")}
    \cup {FetchFault(e) : e \in {x \in FetchEndings : x[1] # "OK"}}

\* an answer without its free text
Typed(r) == <<r.status, r.ok, r.code>>

\* C19 (as claimed): the answer of a handler to a fatal fault differs, in more
\* than its free text, from the answer the same handler gives to any fatal
\* fault of another cause class.
C19_TypedResultTellsCauseClass ==
    (surface \in Handlers /\ rPc = "end" /\ CauseClass(err.kind) # "unclassified") =>
        \A e \in FatalFaults :
            (/\ CauseClass(e.kind) # "unclassified"
             /\ CauseClass(e.kind) # CauseClass(err.kind))
            => Typed(Catch(surface, e.message)) # Typed(response)

\* C21: the key of the candidate in work is in seen from the moment its
\* detail navigation is issued; seen holds every key ever dispatched and
\* loses none, also when the detail stage faults; a key is dispatched only
\* while it has never been dispatched before.
C21_MarkBeforeDispatch ==
    /\ [](pc \in {"gotoJob", "read", "back"} => Head(hrefs) \in seen)
    /\ [](\A k \in Keys : visits[k] >= 1 => k \in seen)
    /\ [][seen \subseteq seen']_vars
    /\ [][\A k \in Keys :
            visits'[k] # visits[k] => (k \in seen /\ visits[k] = 0)]_vars

\* the detail navigation of a candidate timed out, its key is in seen, and
\* the list holds the same key again as the next href
C21_Witness ==
    /\ pc = "back"
    /\ nav.pending
    /\ ~details.read
    /\ Head(hrefs) \in seen
    /\ Len(hrefs) >= 2
    /\ hrefs[2] = Head(hrefs)

\* the positions inside a round of the loop of line 626
RoundPositions ==
    {"detect", "collect", "cand", "gotoJob", "read", "back", "scroll",
     "recollect"}

\* C23: round never exceeds MAX_SCROLL_ROUNDS, and no step of a round (block
\* check, collection, candidate processing, scroll) runs with round at
\* MAX_SCROLL_ROUNDS or above.
C23_RoundWithinMaxRounds ==
    /\ round <= MAX_SCROLL_ROUNDS
    /\ pc \in RoundPositions => round < MAX_SCROLL_ROUNDS

\* the round with the highest index the loop starts is at its block check
C23_Witness ==
    /\ pc = "detect"
    /\ round = STAGNANT_LIMIT - 1
    /\ stagnant = STAGNANT_LIMIT - 1

\* C24 (as claimed): a navigation is issued only when the navigation issued
\* before it is resolved.
C24_OneNavigationInFlight ==
    [][(pc \in {"open", "gotoJob", "back"} /\ pc' # pc) => ~nav.pending]_vars

\* C25: a detail navigation is issued only when the navigation issued last
\* was one to the list root: after each dispatched candidate, whatever its
\* detail stage gave, the list root is loaded again before the next
\* candidate is looked at.
C25_RootBetweenDetails ==
    /\ [][visits' # visits =>
            (nav.last = "root" /\ nav'.last = "detail")]_vars
    /\ [](pc \in {"cand", "gotoJob"} => nav.last = "root")
    /\ [][(nav.last = "detail" /\ nav'.last # "detail") =>
            (pc = "back" /\ nav'.last = "root")]_vars

\* a third candidate is about to be opened after one that matched and one
\* that gave no record (no match, or a fault)
C25_Witness ==
    /\ pc = "gotoJob"
    /\ visits[Head(hrefs)] = 0
    /\ Len(jobs) >= 1
    /\ \E k \in Keys : visits[k] = 1 /\ k \notin Links
    /\ nav.last = "root"

C29_OrderPreserved ==
    /\ [][(pc = "cand" /\ hrefs' # hrefs) =>
            (pc' = "cand" /\ hrefs' = Tail(hrefs) /\ Head(hrefs) \in seen)]_vars
    /\ [][(pc = "cand" /\ pc' = "gotoJob") =>
            (hrefs' = hrefs /\ Head(hrefs) \notin seen
             /\ seen' = seen \cup {Head(hrefs)})]_vars
    /\ [][(pc \in {"gotoJob", "read"} /\ pc' # pc) => hrefs' = hrefs]_vars
    /\ [][(pc = "back" /\ pc' # pc) => hrefs' = Tail(hrefs)]_vars
    /\ [][jobs' # jobs =>
            /\ pc = "read"
            /\ jobs' = Append(jobs, jobs'[Len(jobs')])
            /\ jobs'[Len(jobs')].link = Head(hrefs)]_vars

\* the record that fills the cap is the one of the candidate in work, it
\* comes after the record of an earlier candidate, and an href whose key was
\* never dispatched follows in the list
C29_Witness ==
    /\ pc = "back"
    /\ details.read
    /\ Len(jobs) = MAX_RESULTS_TO_PROCESS
    /\ jobs[Len(jobs)].link = Head(hrefs)
    /\ jobs[1].link # Head(hrefs)
    /\ Len(hrefs) >= 2
    /\ hrefs[2] \notin seen

\* the polls before poll i saw neither a block marker nor a link
QuietBefore(i) ==
    \A j \in 1..(i - 1) : ~dScript[j].blocked /\ dScript[j].count = 0

\* C28: the detector returns BLOCKED at the first poll that sees a block
\* marker, links present or not; it returns OK only at a poll that sees no
\* marker and at least one link; it returns BLOCKED when the window ends
\* with neither seen; while it has not returned, no poll has seen either;
\* and it does return, after at most MaxPolls polls.
C28_DetectorVerdict ==
    /\ [](polls <= MaxPolls /\ QuietBefore(polls + 1))
    /\ [](dResult = "OK" =>
            /\ polls < MaxPolls
            /\ ~dScript[polls + 1].blocked
            /\ dScript[polls + 1].count > 0)
    /\ [](dResult = "BLOCKED" =>
            \/ polls < MaxPolls /\ dScript[polls + 1].blocked
            \/ polls = MaxPolls)
    /\ <>(dResult \in {"OK", "BLOCKED"})

\* after a poll that saw nothing, a poll sees a block marker together with
\* candidate links and the detector has returned BLOCKED
C28_Witness ==
    /\ dResult = "BLOCKED"
    /\ polls >= 1
    /\ polls < MaxPolls
    /\ dScript[polls + 1].blocked
    /\ dScript[polls + 1].count > 0

\* C30 (as claimed): when a scrollable element of the document holds a
\* candidate link, the element the locator returns holds one, and the
\* collection that follows is not empty.
C30_LocatorFindsLinks ==
    (/\ lStage = 1
     /\ \E i \in 1..Len(lPage) : lPage[i].scrollable /\ lPage[i].links > 0)
    => (/\ lOut.el # 0
        /\ lPage[lOut.el].links > 0
        /\ lOut.hrefs > 0)

\* C22 (as claimed): over a list that gives a new key in every round, with
\* the cap not reached, no block and no deadline, the harvest ends only
\* when round has reached MAX_SCROLL_ROUNDS, with the reason max-rounds.
C22_GrowthRunsToMaxRounds ==
    Ended => (pc = "done" /\ reason = "max-rounds"
              /\ round = MAX_SCROLL_ROUNDS)

\* every round of the growing-list scenario adds a key to seen: when the
\* scroll of a round is about to run, seen holds one key per round started
GrowingScenarioGrows ==
    pc \in {"scroll", "recollect"} => (grew /\ Cardinality(seen) = round + 1)

\* C27 (as claimed): once the context is closed, the governor loop issues
\* no operation on its page: the loop does not leave a position at which
\* its next step is a page operation.
C27_NoUseAfterRelease ==
    [][(~contextOpen /\ pc \in PagePositions) => pc' = pc]_vars

\* the settlements of the promise with which the caller gets no records
FatalSettlements == {"FAULT", "TIMEOUT"}

\* C35: the caller gets the records only when the promise settles with the
\* value of the loop, and then the loop has ended by the cap, by stagnation
\* or by the bound of its rounds; a promise rejected by a fault or by the
\* hard timer stays rejected, whatever the loop collects or returns later.
C35_AllOrNothing ==
    /\ [](outcome = "OK" =>
            (pc = "done" /\ reason \in {"max-results", "stagnant", "max-rounds"}))
    /\ [](pc = "failed" => outcome \in FatalSettlements)
    /\ [][(outcome \in FatalSettlements) => (outcome' = outcome)]_vars

\* the detector finds a block at the top of a round when a record has been
\* collected: the harvest is rejected and the record is not returned
C35_Witness ==
    /\ outcome = "FAULT"
    /\ reason = "BLOCKED_MIDRUN"
    /\ Len(jobs) >= 1

\* C37: seen loses no key; jobs changes only by the append, at the end, of
\* the record of the candidate in work when the filter accepts its page; the
\* link of every record is in seen and there are at most as many records as
\* keys in seen.
C37_GrowOnly ==
    /\ [][seen \subseteq seen']_vars
    /\ [][jobs' # jobs =>
            /\ pc = "read"
            /\ Len(jobs') = Len(jobs) + 1
            /\ SubSeq(jobs', 1, Len(jobs)) = jobs
            /\ matchesAIandHR(Haystack(details')).ok
            /\ jobs'[Len(jobs')] = ApiJob(details', Head(hrefs))]_vars
    /\ [](Links \subseteq seen)
    /\ [](Len(jobs) <= Cardinality(seen))

\* two records were appended and a third key of seen gave none
C37_Witness ==
    /\ Len(jobs) = 2
    /\ jobs[1].link # jobs[2].link
    /\ \E k \in seen : k \notin Links

\* a step of the loop: any step but the firing of the hard timer
LoopStep ==
    \/ Open \/ DetectInit \/ DetectRound \/ Collect \/ CandSkip
    \/ CandDispatch \/ GotoJob \/ Read \/ Back \/ EndOfCandidates
    \/ Scroll \/ Recollect

\* the most steps one round takes after its block check: the read of the
\* list, four steps per href, the end of the hrefs, the scroll, the second
\* read
RoundSteps == 4 * MaxList + 4

\* an upper bound of the steps the loop can still take
StepsLeft ==
    LET perRound == RoundSteps + MaxPolls + 1
        later == (MAX_SCROLL_ROUNDS - round - 1) * perRound
    IN  CASE pc = "open" -> MAX_SCROLL_ROUNDS * perRound + MaxPolls + 2
          [] pc = "detect0" -> MAX_SCROLL_ROUNDS * perRound + (MaxPolls + 1 - polls)
          [] pc = "detect" -> later + RoundSteps + (MaxPolls + 1 - polls)
          [] pc = "collect" -> later + RoundSteps
          [] pc = "cand" -> later + 4 * Len(hrefs) + 3
          [] pc = "gotoJob" -> later + 4 * Len(hrefs) + 2
          [] pc = "read" -> later + 4 * Len(hrefs) + 1
          [] pc = "back" -> later + 4 * Len(hrefs)
          [] pc = "scroll" -> later + 2
          [] pc = "recollect" -> later + 1
          [] OTHER -> 0

\* C38: the loop ends without the hard timer: while it has not returned or
\* thrown it can take a step, and every step it takes lowers StepsLeft, a
\* natural number that is 0 only when the loop has ended.
C38_LoopEnds ==
    /\ [](StepsLeft >= 0 /\ (StepsLeft = 0 <=> Ended))
    /\ [](~Ended => ENABLED LoopStep)
    /\ [][<<pc, hrefs, polls, round>> # <<pc', hrefs', polls', round'>> =>
            StepsLeft' < StepsLeft]_vars

\* the loop has returned by itself, the hard timer not having fired, after
\* polls that saw nothing and the visit of a candidate in a later round
C38_Witness ==
    /\ pc = "done"
    /\ outcome = "OK"
    /\ reason = "stagnant"
    /\ round = STAGNANT_LIMIT - 1
    /\ seen # {}

\* C32: an output file exists only when the entry point is runJobsSearch and
\* the harvest has returned; a file is written only by the work stage, and
\* a harvest that ended with a fault or with the hard timeout leaves no
\* file.
C32_SinkAfterHarvest ==
    /\ [](sink # {} =>
            (surface = "runJobsSearch" /\ outcome = "OK" /\ pc = "done"))
    /\ [](outcome \in FatalSettlements => sink = {})
    /\ [][sink' # sink => (rPc = "work" /\ sink = {})]_vars

\* the harvest returned, both files were written and the request succeeded
C32_Witness ==
    /\ sink = {"txt", "json"}
    /\ outcome = "OK"
    /\ rPc = "end"
    /\ response.status = 200

\* C33 (as claimed): when the route has answered, the browser context and
\* the browser it created are closed.
C33_RouteReleasesOnEveryExit ==
    (surface = Route /\ rPc = "end") => (~contextOpen /\ ~browserOpen)

\* the two records agree on every field but the named one
SameBut(field, a, b) ==
    /\ a.raised = b.raised
    /\ field = "jobTitle" \/ a.jobTitle = b.jobTitle
    /\ field = "company" \/ a.company = b.company
    /\ field = "description" \/ a.description = b.description
    /\ field = "postingDate" \/ a.postingDate = b.postingDate

\* the wait that follows the click did not reject
WaitHeld == xIn.showMore = "hidden" \/ xIn.waitOk

\* when the wait after the show-more click does not reject, the extractor
\* returns a record with a title and a company, whichever of its reads
\* reject; and whatever the reads of one field give instead, the other
\* fields of the record are the same
RecordWhenWaitHeld ==
    (xStage = 1 /\ WaitHeld) =>
        /\ ~xOut.raised
        /\ xOut.jobTitle # <<>> /\ xOut.company # <<>>
        /\ \A w \in BOOLEAN, t \in TitleReads, pt \in PageTitleReads :
              SameBut("jobTitle", xOut,
                      readJobPageDetails([xIn EXCEPT !.titleShown = w,
                                                     !.title = t,
                                                     !.pageTitle = pt]))
        /\ \A c \in CompanyReads :
              SameBut("company", xOut,
                      readJobPageDetails([xIn EXCEPT !.company = c]))
        /\ \A m \in (IF xIn.showMore = "hidden" THEN {"hidden"}
                                                ELSE {"clicked", "clickRejected"}),
              d \in DescriptionReads, f \in FallbackReads :
              SameBut("description", xOut,
                      readJobPageDetails([xIn EXCEPT !.showMore = m,
                                                     !.description = d,
                                                     !.fallback = f]))
        /\ \A dt \in DatetimeReads :
              SameBut("postingDate", xOut,
                      readJobPageDetails([xIn EXCEPT !.datetime = dt]))

\* every read rejects, the click too, and the record holds the defaults
AllReadsRejected ==
    /\ xStage = 1
    /\ xIn = [titleShown |-> FALSE, title |-> Rejected, pageTitle |-> Rejected,
              company |-> Rejected, showMore |-> "clickRejected",
              waitOk |-> TRUE, description |-> Rejected,
              fallback |-> Rejected, datetime |-> Rejected]
    /\ xOut = [raised |-> FALSE, jobTitle |-> <<"(unknown title)">>,
               company |-> <<"(unknown company)">>, description |-> <<>>,
               postingDate |-> ""]

\* C31: the extractor returns a record and never raises, whichever of its
\* steps reject.
C31_NeverRaises == xStage = 1 => ~xOut.raised


\* C36: a record is appended only while the page shown is the page of the
\* record's own link
C36_RecordFromOwnPage ==
    [][(jobs' # jobs) => (pageUrl' = jobs'[Len(jobs')].link)]_vars


\* C34: once the hard timer has fired, the harvest is never settled as a
\* success or as a fault of the loop: its outcome is TIMEOUT as soon as it
\* has one
C34_FiredTimerSettlesAsTimeout ==
    capture \in {"capturing", "rejected"} => outcome \in {"pending", "TIMEOUT"}

=============================================================================
